---------------------------- MODULE Spec2Model ----------------------------
(***************************************************************************)
(* The editing core of bed (window/window.go): one window's cursor,        *)
(* viewport, edit-assembly flags, jump stack and history coordination,     *)
(* and the command loop that serialises them behind the window's mutex.    *)
(*                                                                         *)
(* The window is a record w; every method of window.go is an operator      *)
(* from the window before the call to the window after it, and every      *)
(* branch of run's switch is an action.  The byte buffer, the history and  *)
(* mathutil are packages the window imports; they are modelled by their    *)
(* contract (sequence of bytes, log of checkpoints with a position).       *)
(***************************************************************************)
EXTENDS Integers, Sequences, FiniteSets, TLC

VARIABLES
    w,          \* the window struct (window.go:21-44)
    mode,       \* the mode the dispatch layer stamps on events (e.Mode)
    fatal,      \* TRUE once run has panicked
    pc,         \* position of the run goroutine inside its loop body
    ev,         \* the event run has received and is processing
    mu,         \* holder of w.mu: "free", "run" or a caller
    redraw,     \* number of values run is blocked sending on redrawCh (0 or 1)
    queue,      \* event types the dispatch layer still has to send on eventCh
    closed,     \* eventCh has been closed
    reader,     \* per caller of state() / writeTo() / setSize(): its position
    snap,       \* per caller: what it has copied so far
    committed,  \* the window as it was when the mutex was last released
    nredraw,    \* redraw notifications accepted by the renderer
    ncmd,       \* recognised commands run has finished and unlocked
    trail,      \* scenario record: the commands of a scenario and the window before each
    cap         \* bounds of this run: cap.tick caps changedTick

vars == <<w, mode, fatal, pc, ev, mu, redraw, queue, closed, reader, snap,
          committed, nredraw, ncmd, trail, cap>>

(***************************************************************************)
(* Bounds of the model.                                                    *)
(***************************************************************************)
\* Longest content an edit may produce from short content.
MaxLen == 4

\* Content changes (changedTick) in the editing specifications.
MaxTick == 1

\* Content changes in the undo / redo specification.
MaxUndoTick == 2

\* Depth of the jump stack.
MaxStack == 2

\* Events the dispatch layer sends in the command-loop specification.
MaxQueue == 2

\* Commands other than jumps in a recorded sequence of jumps.
MaxBetween == 1

(***************************************************************************)
(* Arithmetic of the source language.                                      *)
(***************************************************************************)
MinInt64(a, b) == IF a < b THEN a ELSE b

MaxInt64(a, b) == IF a > b THEN a ELSE b

\* Go's / on int64 truncates toward zero.
Div(a, b) == IF a >= 0 THEN a \div b ELSE -((-a) \div b)

\* Go's % on int64 has the sign of the dividend.
Mod(a, b) == a - Div(a, b) * b

\* Conversion of an int to byte, and byte arithmetic, wrap modulo 256.
Byte(x) == x % 256

(***************************************************************************)
(* buffer.Buffer: a mutable sequence of bytes, 0-indexed in the source.    *)
(***************************************************************************)
BufLen(b) == Len(b)

\* Insert(offset, c): c becomes the byte at offset.
BufInsert(b, off, c) ==
    IF off >= 0 /\ off <= Len(b)
    THEN SubSeq(b, 1, off) \o <<c>> \o SubSeq(b, off + 1, Len(b))
    ELSE b

\* Replace(offset, c): overwrite; a write at the end of content extends it.
BufReplace(b, off, c) ==
    IF off >= 0 /\ off < Len(b) THEN [b EXCEPT ![off + 1] = c]
    ELSE IF off = Len(b) THEN Append(b, c)
    ELSE b

\* Delete(offset): remove that byte; nothing to remove past the end.
BufDelete(b, off) ==
    IF off >= 0 /\ off < Len(b)
    THEN SubSeq(b, 1, off) \o SubSeq(b, off + 2, Len(b))
    ELSE b

\* ReadAt into a zero-filled buffer of size n: the i-th byte read (0-based).
ByteAt(b, off, i) == IF off + i >= 0 /\ off + i < Len(b) THEN b[off + i + 1] ELSE 0

\* Number of bytes ReadAt actually delivers.
ReadN(b, off, n) == MaxInt64(MinInt64(n, Len(b) - off), 0)

\* readBytes: (n, bytes, nil); io.EOF is not an error.
readBytes(win, off, n) ==
    [n |-> ReadN(win.buffer, off, n),
     bytes |-> [i \in 1..n |-> ByteAt(win.buffer, off, i - 1)]]

(***************************************************************************)
(* history.History: a log of checkpoints and the index of the current one. *)
(***************************************************************************)
NewHistory == [entries |-> <<>>, index |-> 0]

HistPush(h, b, off, cur) ==
    [entries |-> Append(SubSeq(h.entries, 1, h.index),
                        [buffer |-> b, offset |-> off, cursor |-> cur]),
     index |-> h.index + 1]

HistCanUndo(h) == h.index > 1

HistUndo(h) == [h EXCEPT !.index = h.index - 1]

HistCanRedo(h) == h.index < Len(h.entries)

HistRedo(h) == [h EXCEPT !.index = h.index + 1]

HistCurrent(h) == h.entries[h.index]

(***************************************************************************)
(* newWindow and setSize.                                                  *)
(***************************************************************************)
newWindow(b) ==
    [buffer |-> b, changedTick |-> 0, prevChanged |-> FALSE,
     history |-> HistPush(NewHistory, b, 0, 0),
     height |-> 0, width |-> 0, offset |-> 0, cursor |-> 0,
     length |-> BufLen(b), stack |-> <<>>,
     append |-> FALSE, replaceByte |-> FALSE, extending |-> FALSE,
     pending |-> FALSE, pendingByte |-> 0, visualStart |-> -1,
     focusText |-> FALSE]

setSize(win, width, height) ==
    LET o1 == Div(win.offset, width) * width
        o2 == IF win.cursor >= o1 + height * width
              THEN Div(win.cursor - height * width + width, width) * width
              ELSE o1
        o3 == MinInt64(o2,
                Div(MaxInt64(win.length - 1 - height * width + width, 0), width) * width)
    IN [win EXCEPT !.width = width, !.height = height, !.offset = o3]

(***************************************************************************)
(* Scrolling rule shared by the handlers that move the cursor down.        *)
(***************************************************************************)
ScrollDownTo(win) ==
    IF win.cursor >= win.offset + win.height * win.width
    THEN [win EXCEPT !.offset =
            Div(win.cursor - win.height * win.width + win.width, win.width) * win.width]
    ELSE win

\* The collapse of the virtual trailing slot in cursorUp / cursorLeft.
CollapseIfLeft(win) ==
    IF win.append /\ win.extending /\ win.cursor < win.length - 1
    THEN [win EXCEPT !.append = FALSE, !.extending = FALSE,
                     !.length = IF win.length > 0 THEN win.length - 1 ELSE win.length]
    ELSE win

(***************************************************************************)
(* Cursor movement.                                                        *)
(***************************************************************************)
cursorUp(win, count) ==
    LET c == win.cursor
             - MinInt64(MaxInt64(count, 1), Div(win.cursor, win.width)) * win.width
        w1 == [win EXCEPT !.cursor = c]
        w2 == IF c < w1.offset
              THEN [w1 EXCEPT !.offset = Div(c, w1.width) * w1.width]
              ELSE w1
    IN CollapseIfLeft(w2)

\* cursorDown with the scroll left out (a seeded fault: the viewport stays).
cursorDownNoScroll(win, count) ==
    [win EXCEPT !.cursor = win.cursor + MinInt64(
         MinInt64(MaxInt64(count, 1),
                  Div(MaxInt64(win.length, 1) - 1, win.width)
                    - Div(win.cursor, win.width)) * win.width,
         MaxInt64(win.length, 1) - 1 - win.cursor)]

cursorDown(win, count) ==
    LET c == win.cursor + MinInt64(
                 MinInt64(MaxInt64(count, 1),
                          Div(MaxInt64(win.length, 1) - 1, win.width)
                            - Div(win.cursor, win.width)) * win.width,
                 MaxInt64(win.length, 1) - 1 - win.cursor)
    IN ScrollDownTo([win EXCEPT !.cursor = c])

cursorLeft(win, count) ==
    LET c == win.cursor - MinInt64(MaxInt64(count, 1), Mod(win.cursor, win.width))
    IN CollapseIfLeft([win EXCEPT !.cursor = c])

cursorRight(win, m, count) ==
    IF m = "Normal"
    THEN [win EXCEPT !.cursor = win.cursor + MinInt64(
             MinInt64(MaxInt64(count, 1), win.width - 1 - Mod(win.cursor, win.width)),
             MaxInt64(win.length, 1) - 1 - win.cursor)]
    ELSE IF ~win.extending
    THEN LET c == win.cursor + MinInt64(
                 MinInt64(MaxInt64(count, 1), win.width - 1 - Mod(win.cursor, win.width)),
                 win.length - win.cursor)
         IN IF c = win.length
            THEN [win EXCEPT !.cursor = c, !.append = TRUE, !.extending = TRUE,
                             !.length = win.length + 1]
            ELSE [win EXCEPT !.cursor = c]
    ELSE win

cursorPrev(win, count) ==
    LET c == win.cursor - MinInt64(MaxInt64(count, 1), win.cursor)
        w1 == [win EXCEPT !.cursor = c]
        w2 == IF c < w1.offset
              THEN [w1 EXCEPT !.offset = Div(c, w1.width) * w1.width]
              ELSE w1
    IN IF w2.append /\ w2.extending /\ w2.cursor # w2.length
       THEN [w2 EXCEPT !.append = FALSE, !.extending = FALSE,
                       !.length = IF w2.length > 0 THEN w2.length - 1 ELSE w2.length]
       ELSE w2

cursorNext(win, m, count) ==
    LET w1 == IF m = "Normal"
              THEN [win EXCEPT !.cursor = win.cursor
                        + MinInt64(MaxInt64(count, 1),
                                   MaxInt64(win.length, 1) - 1 - win.cursor)]
              ELSE IF ~win.extending
              THEN LET c == win.cursor
                            + MinInt64(MaxInt64(count, 1), win.length - win.cursor)
                   IN IF c = win.length
                      THEN [win EXCEPT !.cursor = c, !.append = TRUE,
                                       !.extending = TRUE, !.length = win.length + 1]
                      ELSE [win EXCEPT !.cursor = c]
              ELSE win
    IN ScrollDownTo(w1)

cursorHead(win, count) ==
    [win EXCEPT !.cursor = win.cursor - Mod(win.cursor, win.width)]

cursorEnd(win, count) ==
    LET c == MinInt64((Div(win.cursor, win.width) + MaxInt64(count, 1)) * win.width - 1,
                      MaxInt64(win.length, 1) - 1)
    IN ScrollDownTo([win EXCEPT !.cursor = c])


(***************************************************************************)
(* Positions (event.Position) and their resolution.                        *)
(***************************************************************************)
NoPos == [kind |-> "nil", Offset |-> 0]

Pos(k, n) == [kind |-> k, Offset |-> n]

NoRange == [nil |-> TRUE, From |-> NoPos, To |-> NoPos]

\* positionToOffset yielding offset 0 where it has no selection to resolve
\* against (a seeded fault).
positionToOffsetDefaults(win, pos) ==
    LET last == MaxInt64(win.length, 1) - 1
    IN CASE pos.kind = "Absolute" ->
              [ok |-> TRUE, off |-> MaxInt64(MinInt64(pos.Offset, last), 0)]
         [] pos.kind = "Relative" ->
              [ok |-> TRUE,
               off |-> win.cursor + MaxInt64(MinInt64(pos.Offset, last - win.cursor),
                                             -win.cursor)]
         [] pos.kind = "End" ->
              [ok |-> TRUE,
               off |-> last + MaxInt64(MinInt64(pos.Offset, 0), -last)]
         [] OTHER -> [ok |-> TRUE, off |-> 0]

positionToOffset(win, pos) ==
    LET last == MaxInt64(win.length, 1) - 1
    IN CASE pos.kind = "Absolute" ->
              [ok |-> TRUE, off |-> MaxInt64(MinInt64(pos.Offset, last), 0)]
         [] pos.kind = "Relative" ->
              [ok |-> TRUE,
               off |-> win.cursor + MaxInt64(MinInt64(pos.Offset, last - win.cursor),
                                             -win.cursor)]
         [] pos.kind = "End" ->
              [ok |-> TRUE,
               off |-> last + MaxInt64(MinInt64(pos.Offset, 0), -last)]
         [] pos.kind = "VisualStart" ->
              IF win.visualStart < 0 THEN [ok |-> FALSE, off |-> 0]
              ELSE [ok |-> TRUE,
                    off |-> win.visualStart
                            + MaxInt64(MinInt64(pos.Offset, last - win.visualStart),
                                       -win.visualStart)]
         [] pos.kind = "VisualEnd" ->
              IF win.visualStart < 0 THEN [ok |-> FALSE, off |-> 0]
              ELSE [ok |-> TRUE,
                    off |-> win.cursor
                            + MaxInt64(MinInt64(pos.Offset, last - win.cursor),
                                       -win.cursor)]
         [] OTHER -> [ok |-> FALSE, off |-> 0]

cursorGotoPos(win, pos) ==
    LET r == positionToOffset(win, pos)
    IN IF ~r.ok THEN win
       ELSE LET c == MaxInt64(MinInt64(r.off, MaxInt64(win.length, 1) - 1), 0)
                w1 == [win EXCEPT !.cursor = c]
            IN IF c < w1.offset
               THEN [w1 EXCEPT !.offset =
                       (MaxInt64(Div(c, w1.width), Div(w1.height, 2))
                          - Div(w1.height, 2)) * w1.width]
               ELSE IF c >= w1.offset + w1.height * w1.width
               THEN LET h == Div(MaxInt64(w1.length, 1) + w1.width - 1, w1.width)
                             - w1.height
                    IN [w1 EXCEPT !.offset =
                          MinInt64(Div(c - w1.height * w1.width + w1.width, w1.width)
                                     + Div(w1.height, 2), h) * w1.width]
               ELSE w1

cursorGoto(win, range) ==
    IF range.nil THEN win
    ELSE IF range.To.kind # "nil" THEN cursorGotoPos(win, range.To)
    ELSE IF range.From.kind # "nil" THEN cursorGotoPos(win, range.From)
    ELSE win

(***************************************************************************)
(* Scrolling and paging.                                                   *)
(***************************************************************************)
scrollUp(win, count) ==
    LET o == win.offset
             - MinInt64(MaxInt64(count, 1), Div(win.offset, win.width)) * win.width
    IN IF win.cursor >= o + win.height * win.width
       THEN [win EXCEPT !.offset = o,
                !.cursor = win.cursor
                    - (Div(win.cursor - o - win.height * win.width, win.width) + 1)
                      * win.width]
       ELSE [win EXCEPT !.offset = o]

scrollDown(win, count) ==
    LET h == MaxInt64(Div(MaxInt64(win.length, 1) + win.width - 1, win.width)
                        - win.height, 0)
        o == win.offset
             + MinInt64(MaxInt64(count, 1), h - Div(win.offset, win.width)) * win.width
    IN IF win.cursor < o
       THEN [win EXCEPT !.offset = o,
                !.cursor = win.cursor + MinInt64(
                    Div(o - win.cursor + win.width - 1, win.width) * win.width,
                    MaxInt64(win.length, 1) - 1 - win.cursor)]
       ELSE [win EXCEPT !.offset = o]

\* pageUpDownJumpRatio = 0.95, as a percentage.
PageJumpPercent == 95

\* int64(float64(height) * 0.95): the product truncated toward zero.
getPageJump(win) == Div(win.height * PageJumpPercent, 100)

\* The body pageUp and pageUpHalf share, for a jump of rows rows.
PageUpBy(win, rows) ==
    LET o == MaxInt64(win.offset - rows * win.width, 0)
    IN IF o = 0 THEN [win EXCEPT !.offset = o, !.cursor = 0]
       ELSE IF win.cursor >= o + win.height * win.width
       THEN [win EXCEPT !.offset = o, !.cursor = o + (win.height - 1) * win.width]
       ELSE [win EXCEPT !.offset = o]

\* The body pageDown and pageDownHalf share.
PageDownBy(win, rows) ==
    LET offset == MaxInt64((Div(win.length + win.width - 1, win.width) - win.height)
                             * win.width, 0)
        o == MinInt64(win.offset + rows * win.width, offset)
    IN IF win.cursor < o THEN [win EXCEPT !.offset = o, !.cursor = o]
       ELSE IF o = offset
       THEN [win EXCEPT !.offset = o,
                !.cursor = (Div(MaxInt64(win.length, 1) + win.width - 1, win.width) - 1)
                           * win.width]
       ELSE [win EXCEPT !.offset = o]

pageUp(win) == PageUpBy(win, getPageJump(win))

pageDown(win) == PageDownBy(win, getPageJump(win))

pageUpHalf(win) == PageUpBy(win, MaxInt64(Div(win.height, 2), 1))

pageDownHalf(win) == PageDownBy(win, MaxInt64(Div(win.height, 2), 1))

pageTop(win) == [win EXCEPT !.offset = 0, !.cursor = 0]

pageEnd(win) ==
    [win EXCEPT
       !.offset = MaxInt64((Div(win.length + win.width - 1, win.width) - win.height)
                             * win.width, 0),
       !.cursor = (Div(MaxInt64(win.length, 1) + win.width - 1, win.width) - 1)
                  * win.width]


(***************************************************************************)
(* Jump list.                                                              *)
(***************************************************************************)
isDigit(b) == 48 <= b /\ b <= 57

isWhite(b) == b = 0 \/ b = 9 \/ b = 10 \/ b = 13 \/ b = 32

\* s := 50 in jumpTo: bytes looked at on each side.
JumpWindow == 50

\* Number standing for every parsed value too large for the model's integers;
\* it exceeds every content length, as such a value does in the source.
ParseSat == 1000000

\* strconv.ParseInt(digits, 10, 64) of the digit bytes ds, the error dropped.
RECURSIVE ParseDigits(_, _)
ParseDigits(ds, acc) ==
    IF ds = <<>> THEN acc
    ELSE ParseDigits(Tail(ds), MinInt64(acc * 10 + (Head(ds) - 48), ParseSat))

jumpTo(win) ==
    LET s == JumpWindow
        base == MaxInt64(win.cursor - s, 0)
        B(k) == ByteAt(win.buffer, base, k)
        \* for i = s; i < 2*s && isWhite(bytes[i]); i++
        nonWhite == {k \in s..(2 * s - 1) : ~isWhite(B(k))}
        i0 == IF nonWhite = {} THEN 2 * s
              ELSE CHOOSE k \in nonWhite : \A m \in nonWhite : k <= m
    IN IF i0 = 2 * s \/ ~isDigit(B(i0)) THEN win
       ELSE LET \* for ; 0 < i && isDigit(bytes[i-1]); i--
                i == CHOOSE k \in 0..i0 :
                        /\ \A m \in k..(i0 - 1) : isDigit(B(m))
                        /\ (k = 0 \/ ~isDigit(B(k - 1)))
                \* for j = i; j < 2*s && isDigit(bytes[j]); j++
                stops == {k \in i..(2 * s - 1) : ~isDigit(B(k))}
                j == IF stops = {} THEN 2 * s
                     ELSE CHOOSE k \in stops : \A m \in stops : k <= m
            IN IF j = 2 * s THEN win
               ELSE LET offset == ParseDigits([k \in 1..(j - i) |-> B(i + k - 1)], 0)
                    IN IF offset <= 0 \/ win.length <= offset THEN win
                       ELSE [win EXCEPT
                              !.stack = Append(win.stack,
                                   [cursor |-> win.cursor, offset |-> win.offset]),
                              !.cursor = offset,
                              !.offset = MaxInt64(
                                   offset - Mod(offset, win.width)
                                     - MaxInt64(Div(win.height, 3), 0) * win.width, 0)]

\* jumpBack that returns to the oldest saved position instead of the most
\* recent one (a seeded fault: the stack read as a queue).
jumpBackOldest(win) ==
    IF Len(win.stack) = 0 THEN win
    ELSE [win EXCEPT !.cursor = win.stack[1].cursor,
                     !.offset = win.stack[1].offset,
                     !.stack = SubSeq(win.stack, 2, Len(win.stack))]

jumpBack(win) ==
    IF Len(win.stack) = 0 THEN win
    ELSE [win EXCEPT !.cursor = win.stack[Len(win.stack)].cursor,
                     !.offset = win.stack[Len(win.stack)].offset,
                     !.stack = SubSeq(win.stack, 1, Len(win.stack) - 1)]

(***************************************************************************)
(* Content mutation: every call bumps changedTick.                         *)
(***************************************************************************)
insert(win, off, c) ==
    [win EXCEPT !.buffer = BufInsert(win.buffer, off, c),
                !.changedTick = win.changedTick + 1]

replace(win, off, c) ==
    [win EXCEPT !.buffer = BufReplace(win.buffer, off, c),
                !.changedTick = win.changedTick + 1]

delete(win, off) ==
    [win EXCEPT !.buffer = BufDelete(win.buffer, off),
                !.changedTick = win.changedTick + 1]

\* One round of deleteByte's loop.
DeleteStep(win) ==
    LET w1 == delete(win, win.cursor)
        w2 == [w1 EXCEPT !.length = w1.length - 1]
    IN IF w2.cursor = w2.length /\ w2.cursor > 0
       THEN [w2 EXCEPT !.cursor = w2.cursor - 1]
       ELSE w2

RECURSIVE Repeat(_, _, _)
\* for i := 0; i < n; i++ { win = F(win) }
Repeat(F(_), win, n) == IF n <= 0 THEN win ELSE Repeat(F, F(win), n - 1)

deleteByte(win, count) ==
    IF win.length = 0 THEN win
    ELSE LET cnt == MinInt64(
                      MinInt64(MaxInt64(count, 1),
                               win.width - Mod(win.cursor, win.width)),
                      win.length - win.cursor)
         IN Repeat(DeleteStep, win, cnt)

\* One round of deletePrevByte's loop.
DeletePrevStep(win) ==
    LET w1 == delete(win, win.cursor - 1)
    IN [w1 EXCEPT !.cursor = w1.cursor - 1, !.length = w1.length - 1]

deletePrevByte(win, count) ==
    LET cnt == MinInt64(MaxInt64(count, 1), Mod(win.cursor, win.width))
    IN Repeat(DeletePrevStep, win, cnt)

\* increment that adds the raw count, so that no count adds nothing (a seeded
\* fault).
incrementRawCount(win, count) ==
    LET b == readBytes(win, win.cursor, 1).bytes[1]
        w1 == replace(win, win.cursor, Byte(b + Byte(Mod(MaxInt64(count, 0), 256))))
    IN IF w1.length = 0 THEN [w1 EXCEPT !.length = 1] ELSE w1

increment(win, count) ==
    LET b == readBytes(win, win.cursor, 1).bytes[1]
        w1 == replace(win, win.cursor, Byte(b + Byte(Mod(MaxInt64(count, 1), 256))))
    IN IF w1.length = 0 THEN [w1 EXCEPT !.length = 1] ELSE w1

decrement(win, count) ==
    LET b == readBytes(win, win.cursor, 1).bytes[1]
        w1 == replace(win, win.cursor, Byte(b - Byte(Mod(MaxInt64(count, 1), 256))))
    IN IF w1.length = 0 THEN [w1 EXCEPT !.length = 1] ELSE w1

(***************************************************************************)
(* Entering and leaving insert / replace.                                  *)
(***************************************************************************)
\* if w.cursor == w.length { append, extending = true; length++ }
OpenSlotAtEnd(win) ==
    IF win.cursor = win.length
    THEN [win EXCEPT !.append = TRUE, !.extending = TRUE, !.length = win.length + 1]
    ELSE win

startInsert(win) ==
    OpenSlotAtEnd([win EXCEPT !.append = FALSE, !.extending = FALSE,
                              !.pending = FALSE])

startInsertHead(win) ==
    OpenSlotAtEnd([cursorHead(win, 0) EXCEPT !.append = FALSE, !.extending = FALSE,
                                             !.pending = FALSE])

startAppend(win) ==
    LET w1 == [win EXCEPT !.append = TRUE, !.extending = FALSE, !.pending = FALSE,
                  !.cursor = IF win.length > 0 THEN win.cursor + 1 ELSE win.cursor]
        w2 == IF w1.cursor = w1.length
              THEN [w1 EXCEPT !.extending = TRUE, !.length = w1.length + 1]
              ELSE w1
    IN ScrollDownTo(w2)

startAppendEnd(win) == startAppend(cursorEnd(win, 0))

startReplaceByte(win) ==
    [win EXCEPT !.replaceByte = TRUE, !.append = FALSE, !.extending = FALSE,
                !.pending = FALSE]

startReplace(win) ==
    [win EXCEPT !.replaceByte = FALSE, !.append = FALSE, !.extending = FALSE,
                !.pending = FALSE]

\* exitInsert that leaves the virtual trailing slot counted in length (a
\* seeded fault).
exitInsertKeepsSlot(win) ==
    LET w1 == [win EXCEPT !.pending = FALSE]
    IN IF w1.append
       THEN [w1 EXCEPT
              !.cursor = IF w1.cursor > 0 THEN w1.cursor - 1 ELSE w1.cursor,
              !.replaceByte = FALSE, !.append = FALSE, !.extending = FALSE,
              !.pending = FALSE]
       ELSE w1

exitInsert(win) ==
    LET w1 == [win EXCEPT !.pending = FALSE]
    IN IF w1.append
       THEN [w1 EXCEPT
              !.length = IF w1.extending /\ w1.length > 0
                         THEN w1.length - 1 ELSE w1.length,
              !.cursor = IF w1.cursor > 0 THEN w1.cursor - 1 ELSE w1.cursor,
              !.replaceByte = FALSE, !.append = FALSE, !.extending = FALSE,
              !.pending = FALSE]
       ELSE w1

(***************************************************************************)
(* Byte input assembly.                                                    *)
(***************************************************************************)
insertByte(win, m, b) ==
    IF win.pending
    THEN LET c == win.pendingByte + b   \* pendingByte|b: the nibbles do not overlap
             w1 == CASE m = "Insert" ->
                         LET x == insert(win, win.cursor, c)
                         IN [x EXCEPT !.cursor = x.cursor + 1, !.length = x.length + 1]
                      [] m = "Replace" ->
                         LET x == replace(win, win.cursor, c)
                             y == IF x.length = 0 THEN [x EXCEPT !.length = 1] ELSE x
                         IN IF y.replaceByte THEN exitInsert(y)
                            ELSE OpenSlotAtEnd([y EXCEPT !.cursor = y.cursor + 1])
                      [] OTHER -> win
             w2 == ScrollDownTo(w1)
         IN [w2 EXCEPT !.pending = FALSE, !.pendingByte = 0]
    ELSE [win EXCEPT !.pending = TRUE, !.pendingByte = Byte(b * 16)]

\* utf8.EncodeRune: the bytes of the rune's UTF-8 encoding.
EncodeRune(ch) ==
    LET r == IF ch < 0 \/ ch > 1114111 \/ (55296 <= ch /\ ch <= 57343)
             THEN 65533 ELSE ch
    IN IF r < 128 THEN <<r>>
       ELSE IF r < 2048 THEN <<192 + (r \div 64), 128 + (r % 64)>>
       ELSE IF r < 65536
       THEN <<224 + (r \div 4096), 128 + ((r \div 64) % 64), 128 + (r % 64)>>
       ELSE <<240 + (r \div 262144), 128 + ((r \div 4096) % 64),
              128 + ((r \div 64) % 64), 128 + (r % 64)>>

RECURSIVE InsertBytes(_, _, _)
\* for i := 0; i < n; i++ { insertByte(m, buf[i]>>4); insertByte(m, buf[i]&0x0f) }
InsertBytes(win, m, bs) ==
    IF bs = <<>> THEN win
    ELSE InsertBytes(
           insertByte(insertByte(win, m, Head(bs) \div 16), m, Head(bs) % 16),
           m, Tail(bs))

insertRune(win, m, ch) ==
    IF m = "Insert" \/ m = "Replace"
    THEN IF win.focusText THEN InsertBytes(win, m, EncodeRune(ch))
         ELSE IF 48 <= ch /\ ch <= 57 THEN insertByte(win, m, Byte(ch - 48))
         ELSE IF 97 <= ch /\ ch <= 102 THEN insertByte(win, m, Byte(ch - 97 + 10))
         ELSE win
    ELSE win

backspace(win) ==
    IF win.pending THEN [win EXCEPT !.pending = FALSE, !.pendingByte = 0]
    ELSE IF win.cursor > 0
    THEN LET w1 == delete(win, win.cursor - 1)
         IN [w1 EXCEPT !.cursor = w1.cursor - 1, !.length = w1.length - 1]
    ELSE win

(***************************************************************************)
(* Visual selection.                                                       *)
(***************************************************************************)
startVisual(win) == [win EXCEPT !.visualStart = win.cursor]

\* Called only with visualStart >= 0; run panics otherwise (see Panics).
switchVisualEnd(win) ==
    LET w1 == [win EXCEPT !.cursor = win.visualStart, !.visualStart = win.cursor]
    IN IF w1.cursor < w1.offset
       THEN [w1 EXCEPT !.offset = Div(w1.cursor, w1.width) * w1.width]
       ELSE ScrollDownTo(w1)

exitVisual(win) == [win EXCEPT !.visualStart = -1]


(***************************************************************************)
(* Search.                                                                 *)
(***************************************************************************)
\* The two factors of the scan size: height*width*50 and len(target)*500.
SearchScreens == 50

SearchPerByte == 500

SearchSize(win, target) ==
    MaxInt64(win.height * win.width * SearchScreens, Len(target) * SearchPerByte)

\* target occurs in the scanned bytes at index i (0-based).
MatchAt(win, base, target, i) ==
    \A k \in 1..Len(target) : ByteAt(win.buffer, base, i + k - 1) = target[k]

\* bytes.Index over the size bytes read at base, -1 if there is none.  Every
\* byte past the n bytes read is zero, so a match that starts past n is a
\* match of zeros and one starts at n as well: indices up to n decide it.
BytesIndex(win, base, size, target) ==
    LET n == ReadN(win.buffer, base, size)
        hits == {i \in 0..MinInt64(size - Len(target), n) :
                    MatchAt(win, base, target, i)}
    IN IF hits = {} THEN -1 ELSE CHOOSE i \in hits : \A m \in hits : i <= m

\* bytes.LastIndex over the size bytes read at base, -1 if there is none.
BytesLastIndex(win, base, size, target) ==
    LET hits == {i \in 0..(size - Len(target)) : MatchAt(win, base, target, i)}
    IN IF hits = {} THEN -1 ELSE CHOOSE i \in hits : \A m \in hits : i >= m

searchForward(win, target) ==
    LET base == win.cursor + 1
        size == SearchSize(win, target)
        i == BytesIndex(win, base, size, target)
    IN IF i >= 0
       THEN LET w1 == [win EXCEPT !.cursor = base + i]
            IN IF w1.cursor >= w1.offset + w1.height * w1.width
               THEN [w1 EXCEPT !.offset =
                       Div(w1.cursor - w1.height * w1.width + w1.width + 1, w1.width)
                         * w1.width]
               ELSE w1
       ELSE win

searchBackward(win, target) ==
    LET size == SearchSize(win, target)
        base == MaxInt64(0, win.cursor - size)
        i == BytesLastIndex(win, base, MinInt64(size, win.cursor), target)
    IN IF i >= 0
       THEN LET w1 == [win EXCEPT !.cursor = base + i]
            IN IF w1.cursor < w1.offset
               THEN [w1 EXCEPT !.offset = Div(w1.cursor, w1.width) * w1.width]
               ELSE w1
       ELSE win

search(win, str, forward) ==
    IF forward THEN searchForward(win, str) ELSE searchBackward(win, str)

(***************************************************************************)
(* Undo and redo.                                                          *)
(***************************************************************************)
\* One round of undo's loop; the loop returns when the history gives nil.
UndoStep(win) ==
    IF ~HistCanUndo(win.history) THEN win
    ELSE LET h == HistUndo(win.history)
             e == HistCurrent(h)
         IN [win EXCEPT !.history = h, !.buffer = e.buffer, !.offset = e.offset,
                        !.cursor = e.cursor, !.length = BufLen(e.buffer)]

\* One round of redo's loop.
RedoStep(win) ==
    IF ~HistCanRedo(win.history) THEN win
    ELSE LET h == HistRedo(win.history)
             e == HistCurrent(h)
         IN [win EXCEPT !.history = h, !.buffer = e.buffer, !.offset = e.offset,
                        !.cursor = e.cursor, !.length = BufLen(e.buffer)]

\* undo that goes back one checkpoint whatever the count (a seeded fault).
undoOnce(win, count) == UndoStep(win)

undo(win, count) == Repeat(UndoStep, win, MaxInt64(count, 1))

redo(win, count) == Repeat(RedoStep, win, MaxInt64(count, 1))

(***************************************************************************)
(* run: the switch on the event type and the checkpoint decision.          *)
(***************************************************************************)
NavTypes ==
    {"CursorUp", "CursorDown", "CursorLeft", "CursorRight", "CursorPrev",
     "CursorNext", "CursorHead", "CursorEnd", "CursorGoto", "ScrollUp",
     "ScrollDown", "PageUp", "PageDown", "PageUpHalf", "PageDownHalf",
     "PageTop", "PageEnd", "JumpTo", "JumpBack"}

EventTypes ==
    NavTypes \cup
    {"DeleteByte", "DeletePrevByte", "Increment", "Decrement", "StartInsert",
     "StartInsertHead", "StartAppend", "StartAppendEnd", "StartReplaceByte",
     "StartReplace", "ExitInsert", "Rune", "Backspace", "Delete", "StartVisual",
     "SwitchVisualEnd", "ExitVisual", "SwitchFocus", "Undo", "Redo",
     "ExecuteSearch", "NextSearch", "PreviousSearch"}

\* '/': the rune of a forward search event.
Slash == 47

\* The runes a search event carries: '/' and '?' (63).
SearchRunes == {Slash, 63}

\* The event makes run panic: the goroutine dies holding the mutex.
Panics(win, t, m) ==
    \/ t \in {"Undo", "Redo"} /\ m # "Normal"
    \/ t = "SwitchVisualEnd" /\ win.visualStart < 0

\* The SwitchFocus branch of run's switch.
switchFocus(win) ==
    [win EXCEPT !.focusText = ~win.focusText, !.pending = FALSE,
                !.pendingByte = IF win.pending THEN 0 ELSE win.pendingByte,
                !.changedTick = win.changedTick + 1]

\* The checkpoint decision after the switch, for an event of type t stamped
\* with mode m: w0 is the window run saved (offset, cursor, changedTick)
\* before the switch, w1 the window after it.
Checkpoint(w0, w1, t, m) ==
    LET changed == w0.changedTick # w1.changedTick
        h == IF t # "Undo" /\ t # "Redo"
             THEN IF (m = "Normal" /\ changed)
                     \/ (t = "ExitInsert" /\ w1.prevChanged)
                  THEN HistPush(w1.history, w1.buffer, w1.offset, w1.cursor)
                  ELSE IF m # "Normal" /\ w1.prevChanged /\ ~changed
                          /\ t \in NavTypes
                  THEN HistPush(w1.history, w1.buffer, w0.offset, w0.cursor)
                  ELSE w1.history
             ELSE w1.history
    IN [w1 EXCEPT !.history = h, !.prevChanged = changed]

(***************************************************************************)
(* The dispatch layer: which events each mode's key table sends, and the   *)
(* mode it stamps on the next event.                                       *)
(***************************************************************************)
Bound(m, t) ==
    CASE m = "Normal" ->
           t \in NavTypes \cup
                 {"DeleteByte", "DeletePrevByte", "Increment", "Decrement",
                  "StartInsert", "StartInsertHead", "StartAppend", "StartAppendEnd",
                  "StartReplaceByte", "StartReplace", "SwitchFocus", "Undo", "Redo",
                  "ExecuteSearch", "NextSearch", "PreviousSearch", "StartVisual"}
      [] m \in {"Insert", "Replace"} ->
           t \in {"ExitInsert", "CursorUp", "CursorDown", "CursorLeft", "CursorRight",
                  "CursorPrev", "CursorNext", "PageUp", "PageDown", "PageTop",
                  "PageEnd", "Backspace", "Delete", "SwitchFocus", "Rune"}
      [] m = "Visual" -> t \in NavTypes \cup {"SwitchVisualEnd", "ExitVisual"}
      [] OTHER -> FALSE

NextMode(m, t) ==
    CASE t \in {"StartInsert", "StartInsertHead", "StartAppend", "StartAppendEnd"}
           -> "Insert"
      [] t \in {"StartReplaceByte", "StartReplace"} -> "Replace"
      [] t \in {"ExitInsert", "ExitVisual"} -> "Normal"
      [] t = "StartVisual" -> "Visual"
      [] OTHER -> m

(***************************************************************************)
(* Inputs of the model.                                                    *)
(***************************************************************************)
\* Short content the window is opened on: the prefixes of InitText.
InitText == <<0, 255, 49, 50>>

InitBuffers == {SubSeq(InitText, 1, n) : n \in 0..MinInt64(MaxLen, Len(InitText))}

\* Content long enough for jumpTo's window: 51 dots (46), then the digits "52".
\* The number under the cursor at offsets 51 and 52 is 52, the last offset.
JumpText == [i \in 1..(JumpWindow + 3) |->
                IF i <= JumpWindow + 1 THEN 46 ELSE IF i = JumpWindow + 2 THEN 53 ELSE 50]

Widths == {2, 3}

Heights == {1, 2, 3}

\* Repeat counts: 0 stands for "no count given".
Counts == {0, 2, 5}

\* 'a' (a hex digit) and 'z' (none).
Runes == {97, 122}

SearchArgs == {<<>>, <<0>>, <<255, 49>>}

Positions ==
    {Pos("Absolute", 0), Pos("Absolute", 3), Pos("Absolute", 52), Pos("Absolute", 99),
     Pos("Relative", -1), Pos("Relative", 4), Pos("End", 0), Pos("End", -2),
     Pos("VisualStart", 0)}

Ranges ==
    {NoRange} \cup {[nil |-> FALSE, From |-> p, To |-> NoPos] : p \in Positions}
              \cup {[nil |-> FALSE, From |-> Pos("Absolute", 0), To |-> p] :
                      p \in Positions}

\* The bounds of the model, as a guard on the window a command leads to;
\* extra is the number of content changes a scenario step may add.
Within(win, extra) ==
    /\ Len(win.buffer) <= MaxInt64(MaxLen, Len(JumpText))
    /\ Len(win.buffer) <= MaxLen \/ Len(win.buffer) <= Len(w.buffer)
    /\ win.length <= Len(win.buffer) + 2
    /\ win.cursor <= Len(win.buffer) + 2
    /\ win.changedTick <= cap.tick + extra
    /\ Len(win.stack) <= MaxStack

(***************************************************************************)
(* Commands processed as a whole (run's loop body, Lock to Unlock), with   *)
(* no other goroutine in between.                                          *)
(***************************************************************************)
\* The goroutines that call state(), writeTo() and setSize().
Callers == {"c1", "c2"}

LoopIdle ==
    /\ pc = "recv" /\ mu = "free" /\ redraw = 0
    /\ \A c \in Callers : reader[c] = "idle"

\* run processes an event of type t stamped with the current mode, whose
\* branch of the switch turns the window into w1; tr is the scenario record
\* after it and extra the content changes a scenario step may add.
Step(t, w1, tr, extra) ==
    /\ ~fatal
    /\ LoopIdle
    /\ ~Panics(w, t, mode)
    /\ LET r == Checkpoint(w, w1, t, mode)
       IN /\ Within(r, extra)
          /\ w' = r
          /\ committed' = r
    /\ mode' = NextMode(mode, t)
    /\ trail' = tr
    /\ UNCHANGED <<fatal, pc, ev, mu, redraw, queue, closed, reader, snap, nredraw,
                   ncmd, cap>>

\* The dispatch layer sends an event its current mode binds, outside the
\* scenarios (trail empty).
Sends(t) == trail = <<>> /\ Bound(mode, t)

CursorUp ==
    /\ Sends("CursorUp")
    /\ \E c \in Counts : Step("CursorUp", cursorUp(w, c), <<>>, 0)

CursorDown ==
    /\ Sends("CursorDown")
    /\ \E c \in Counts : Step("CursorDown", cursorDown(w, c), <<>>, 0)

CursorLeft ==
    /\ Sends("CursorLeft")
    /\ \E c \in Counts : Step("CursorLeft", cursorLeft(w, c), <<>>, 0)

CursorRight ==
    /\ Sends("CursorRight")
    /\ \E c \in Counts : Step("CursorRight", cursorRight(w, mode, c), <<>>, 0)

CursorPrev ==
    /\ Sends("CursorPrev")
    /\ \E c \in Counts : Step("CursorPrev", cursorPrev(w, c), <<>>, 0)

CursorNext ==
    /\ Sends("CursorNext")
    /\ \E c \in Counts : Step("CursorNext", cursorNext(w, mode, c), <<>>, 0)

CursorHead ==
    /\ Sends("CursorHead")
    /\ \E c \in Counts : Step("CursorHead", cursorHead(w, c), <<>>, 0)

CursorEnd ==
    /\ Sends("CursorEnd")
    /\ \E c \in Counts : Step("CursorEnd", cursorEnd(w, c), <<>>, 0)

CursorGoto ==
    /\ Sends("CursorGoto")
    /\ \E r \in Ranges : Step("CursorGoto", cursorGoto(w, r), <<>>, 0)

ScrollUp ==
    /\ Sends("ScrollUp")
    /\ \E c \in Counts : Step("ScrollUp", scrollUp(w, c), <<>>, 0)

ScrollDown ==
    /\ Sends("ScrollDown")
    /\ \E c \in Counts : Step("ScrollDown", scrollDown(w, c), <<>>, 0)

PageUp ==
    /\ Sends("PageUp")
    /\ Step("PageUp", pageUp(w), <<>>, 0)

PageDown ==
    /\ Sends("PageDown")
    /\ Step("PageDown", pageDown(w), <<>>, 0)

PageUpHalf ==
    /\ Sends("PageUpHalf")
    /\ Step("PageUpHalf", pageUpHalf(w), <<>>, 0)

PageDownHalf ==
    /\ Sends("PageDownHalf")
    /\ Step("PageDownHalf", pageDownHalf(w), <<>>, 0)

PageTop ==
    /\ Sends("PageTop")
    /\ Step("PageTop", pageTop(w), <<>>, 0)

PageEnd ==
    /\ Sends("PageEnd")
    /\ Step("PageEnd", pageEnd(w), <<>>, 0)

JumpTo ==
    /\ Sends("JumpTo")
    /\ Step("JumpTo", jumpTo(w), <<>>, 0)

JumpBack ==
    /\ Sends("JumpBack")
    /\ Step("JumpBack", jumpBack(w), <<>>, 0)

DeleteByte ==
    /\ Sends("DeleteByte")
    /\ \E c \in Counts : Step("DeleteByte", deleteByte(w, c), <<>>, 0)

DeletePrevByte ==
    /\ Sends("DeletePrevByte")
    /\ \E c \in Counts : Step("DeletePrevByte", deletePrevByte(w, c), <<>>, 0)

Increment ==
    /\ Sends("Increment")
    /\ \E c \in Counts : Step("Increment", increment(w, c), <<>>, 0)

Decrement ==
    /\ Sends("Decrement")
    /\ \E c \in Counts : Step("Decrement", decrement(w, c), <<>>, 0)

StartInsert ==
    /\ Sends("StartInsert")
    /\ Step("StartInsert", startInsert(w), <<>>, 0)

StartInsertHead ==
    /\ Sends("StartInsertHead")
    /\ Step("StartInsertHead", startInsertHead(w), <<>>, 0)

StartAppend ==
    /\ Sends("StartAppend")
    /\ Step("StartAppend", startAppend(w), <<>>, 0)

StartAppendEnd ==
    /\ Sends("StartAppendEnd")
    /\ Step("StartAppendEnd", startAppendEnd(w), <<>>, 0)

StartReplaceByte ==
    /\ Sends("StartReplaceByte")
    /\ Step("StartReplaceByte", startReplaceByte(w), <<>>, 0)

StartReplace ==
    /\ Sends("StartReplace")
    /\ Step("StartReplace", startReplace(w), <<>>, 0)

ExitInsert ==
    /\ Sends("ExitInsert")
    /\ Step("ExitInsert", exitInsert(w), <<>>, 0)

Rune ==
    /\ Sends("Rune")
    /\ \E u \in Runes : Step("Rune", insertRune(w, mode, u), <<>>, 0)

Backspace ==
    /\ Sends("Backspace")
    /\ Step("Backspace", backspace(w), <<>>, 0)

Delete ==
    /\ Sends("Delete")
    /\ Step("Delete", deleteByte(w, 1), <<>>, 0)

StartVisual ==
    /\ Sends("StartVisual")
    /\ Step("StartVisual", startVisual(w), <<>>, 0)

SwitchVisualEnd ==
    /\ Sends("SwitchVisualEnd")
    /\ Step("SwitchVisualEnd", switchVisualEnd(w), <<>>, 0)

ExitVisual ==
    /\ Sends("ExitVisual")
    /\ Step("ExitVisual", exitVisual(w), <<>>, 0)

SwitchFocus ==
    /\ Sends("SwitchFocus")
    /\ Step("SwitchFocus", switchFocus(w), <<>>, 0)

Undo ==
    /\ Sends("Undo")
    /\ \E c \in Counts : Step("Undo", undo(w, c), <<>>, 0)

Redo ==
    /\ Sends("Redo")
    /\ \E c \in Counts : Step("Redo", redo(w, c), <<>>, 0)

ExecuteSearch ==
    /\ Sends("ExecuteSearch")
    /\ \E a \in SearchArgs, u \in SearchRunes : Step("ExecuteSearch", search(w, a, u = Slash), <<>>, 0)

NextSearch ==
    /\ Sends("NextSearch")
    /\ \E a \in SearchArgs, u \in SearchRunes : Step("NextSearch", search(w, a, u = Slash), <<>>, 0)

PreviousSearch ==
    /\ Sends("PreviousSearch")
    /\ \E a \in SearchArgs, u \in SearchRunes : Step("PreviousSearch", search(w, a, u # Slash), <<>>, 0)

(***************************************************************************)
(* Initial states: a window opened on some content and sized once.         *)
(***************************************************************************)
InitWith(bufs, widths, heights, ticks) ==
    /\ \E b \in bufs, wd \in widths, ht \in heights :
          w = setSize(newWindow(b), wd, ht)
    /\ mode = "Normal"
    /\ fatal = FALSE
    /\ pc = "recv"
    /\ ev = "None"
    /\ mu = "free"
    /\ redraw = 0
    /\ queue = <<>>
    /\ closed = FALSE
    /\ reader = [c \in Callers |-> "idle"]
    /\ snap = [c \in Callers |-> <<>>]
    /\ committed = w
    /\ nredraw = 0
    /\ ncmd = 0
    /\ trail = <<>>
    /\ cap = [tick |-> ticks]

(***************************************************************************)
(* The whole command set on short content.                                 *)
(***************************************************************************)
Init == InitWith(InitBuffers, Widths, Heights, MaxTick)

Next ==
    \/ CursorUp \/ CursorDown \/ CursorLeft \/ CursorRight \/ CursorPrev
    \/ CursorNext \/ CursorHead \/ CursorEnd \/ CursorGoto \/ ScrollUp
    \/ ScrollDown \/ PageUp \/ PageDown \/ PageUpHalf \/ PageDownHalf
    \/ PageTop \/ PageEnd \/ JumpTo \/ JumpBack
    \/ DeleteByte \/ DeletePrevByte \/ Increment \/ Decrement
    \/ StartInsert \/ StartInsertHead \/ StartAppend \/ StartAppendEnd
    \/ StartReplaceByte \/ StartReplace \/ ExitInsert \/ Rune \/ Backspace
    \/ Delete \/ StartVisual \/ SwitchVisualEnd \/ ExitVisual \/ SwitchFocus
    \/ Undo \/ Redo \/ ExecuteSearch \/ NextSearch \/ PreviousSearch

Spec == Init /\ [][Next]_vars

(***************************************************************************)
(* Navigation in Normal mode on content that is never edited.              *)
(***************************************************************************)
NavBuffers == (InitBuffers \ {<<>>}) \cup {JumpText}

InitNav == InitWith(NavBuffers, Widths, Heights, 0)

NextNav ==
    \/ CursorUp \/ CursorDown \/ CursorLeft \/ CursorRight \/ CursorPrev
    \/ CursorNext \/ CursorHead \/ CursorEnd \/ CursorGoto \/ ScrollUp
    \/ ScrollDown \/ PageUp \/ PageDown \/ PageUpHalf \/ PageDownHalf
    \/ PageTop \/ PageEnd \/ JumpTo \/ JumpBack

SpecNav == InitNav /\ [][NextNav]_vars

\* The cursor is an offset of the content (offset 0 when it is empty).
CursorInContent(win) == 0 <= win.cursor /\ win.cursor < MaxInt64(win.length, 1)

\* The viewport starts on a row boundary.
OffsetAligned(win) == win.offset >= 0 /\ Mod(win.offset, win.width) = 0

\* The cursor is on one of the height rows shown.
CursorInView(win) ==
    win.offset <= win.cursor /\ win.cursor < win.offset + win.height * win.width

EditBuffers == {<<>>, SubSeq(InitText, 1, 3)}

InitEdit == InitWith(EditBuffers, {2}, {1, 2}, MaxTick)

NextEdit ==
    \/ CursorUp \/ CursorDown \/ CursorLeft \/ CursorRight \/ CursorPrev
    \/ CursorNext \/ CursorHead \/ CursorEnd \/ ScrollUp \/ ScrollDown
    \/ PageUp \/ PageDown \/ PageUpHalf \/ PageDownHalf \/ PageTop \/ PageEnd
    \/ DeleteByte \/ DeletePrevByte
    \/ StartInsert \/ StartInsertHead \/ StartAppend \/ StartAppendEnd
    \/ StartReplaceByte \/ StartReplace \/ ExitInsert \/ Rune \/ Backspace
    \/ Delete \/ SwitchFocus \/ Undo \/ Redo

SpecEdit == InitEdit /\ [][NextEdit]_vars

\* C2: after every command of the loop, editing and mode-transition commands
\* included, the viewport offset is a non-negative multiple of the width and
\* the cursor lies inside the viewport, unless the content is empty.
C2_CursorInViewAfterEveryCommand ==
    w.length = 0 \/ (OffsetAligned(w) /\ CursorInView(w))

\* C3: after every command of the loop, in any mode, the cursor is an offset
\* of the logical content: 0 <= cursor < max(length, 1).
C3_CursorInContentAfterEveryCommand == CursorInContent(w)

\* C4: after every command the window's length is the real length of the
\* content, plus one exactly while extending.
C4_LengthMirrorsContent ==
    w.length = BufLen(w.buffer) + (IF w.extending THEN 1 ELSE 0)

(***************************************************************************)
(* Jumps on the long content, with the cursor walked to its end and bytes  *)
(* deleted there.                                                          *)
(***************************************************************************)
InitJump == InitWith({JumpText}, {3}, {1, 2}, MaxTick)

NextJump ==
    \/ CursorNext \/ CursorPrev \/ PageEnd \/ JumpTo \/ JumpBack \/ DeleteByte

SpecJump == InitJump /\ [][NextJump]_vars

(***************************************************************************)
(* Scenario: at end-of-content in Normal mode, enter insert or append and  *)
(* leave at once.  trail records each command of the scenario with the     *)
(* window before it.                                                       *)
(***************************************************************************)
AtEndOfContent(win) == win.cursor = MaxInt64(win.length, 1) - 1

EnterAtEnd ==
    /\ trail = <<>>
    /\ mode = "Normal"
    /\ AtEndOfContent(w)
    /\ \/ Step("StartInsert", startInsert(w),
               <<[Type |-> "StartInsert", before |-> w]>>, 0)
       \/ Step("StartAppend", startAppend(w),
               <<[Type |-> "StartAppend", before |-> w]>>, 0)
       \/ Step("StartAppendEnd", startAppendEnd(w),
               <<[Type |-> "StartAppendEnd", before |-> w]>>, 0)

LeaveAtOnce ==
    /\ Len(trail) = 1
    /\ Step("ExitInsert", exitInsert(w),
            Append(trail, [Type |-> "ExitInsert", before |-> w]), 0)

NextEnterExit == NextEdit \/ EnterAtEnd \/ LeaveAtOnce

SpecEnterExit == InitEdit /\ [][NextEnterExit]_vars

\* C5: from Normal mode with the cursor at end-of-content, startInsert,
\* startAppend or startAppendEnd followed at once by exitInsert leaves length
\* and cursor as they were, and append, extending and pending all false.
C5_EnterThenExitRestores ==
    Len(trail) = 2 =>
        /\ w.length = trail[1].before.length
        /\ w.cursor = trail[1].before.cursor
        /\ ~w.append /\ ~w.extending /\ ~w.pending

\* startAppend opened the virtual trailing slot on non-empty content and
\* exitInsert has closed it.
C5_Witness ==
    /\ Len(trail) = 2
    /\ trail[1].Type = "StartAppend"
    /\ trail[1].before.length > 0
    /\ trail[2].before.extending
    /\ trail[2].before.length = trail[1].before.length + 1

(***************************************************************************)
(* Scenario: in Insert mode with hex focus and no nibble pending, two hex  *)
(* digits are typed.                                                       *)
(***************************************************************************)
\* '0', '9', 'a', 'f'
HexRunes == {48, 57, 97, 102}

\* The value of a hex digit.
HexVal(r) == IF r <= 57 THEN r - 48 ELSE r - 97 + 10

FirstNibble ==
    /\ trail = <<>>
    /\ mode = "Insert"
    /\ ~w.focusText
    /\ ~w.pending
    /\ \E h \in HexRunes :
          Step("Rune", insertRune(w, mode, h),
               <<[Type |-> "Rune", Rune |-> h, before |-> w]>>, 1)

SecondNibble ==
    /\ Len(trail) = 1
    /\ \E l \in HexRunes :
          Step("Rune", insertRune(w, mode, l),
               Append(trail, [Type |-> "Rune", Rune |-> l, before |-> w]), 1)

NextNibble == NextEdit \/ FirstNibble \/ SecondNibble

SpecNibble == InitEdit /\ [][NextNibble]_vars

\* The window after the first Rune of the scenario.
AfterFirst == IF Len(trail) = 1 THEN w ELSE trail[2].before

\* C6: in Insert mode with hex focus and no nibble pending, the first hex
\* digit h changes no content and only sets pending with 16*h stored; the
\* second digit l inserts the one byte 16*h+l at the old cursor position,
\* moves the cursor on by one and grows length by one.
C6_TwoNibblesInsertOneByte ==
    /\ Len(trail) >= 1 =>
          LET b == trail[1].before
              a == AfterFirst
          IN /\ a.buffer = b.buffer
             /\ a.cursor = b.cursor /\ a.length = b.length
             /\ a.pending /\ a.pendingByte = 16 * HexVal(trail[1].Rune)
    /\ Len(trail) = 2 =>
          LET b == trail[1].before
              v == 16 * HexVal(trail[1].Rune) + HexVal(trail[2].Rune)
          IN /\ Len(w.buffer) = Len(b.buffer) + 1
             /\ \A i \in 1..Len(w.buffer) :
                   w.buffer[i] = IF i <= b.cursor THEN b.buffer[i]
                                 ELSE IF i = b.cursor + 1 THEN v
                                 ELSE b.buffer[i - 1]
             /\ w.cursor = b.cursor + 1
             /\ w.length = b.length + 1
             /\ ~w.pending

\* 'a' then 'f' have inserted 0xAF in front of existing bytes.
C6_Witness ==
    /\ Len(trail) = 2
    /\ trail[1].Rune = 97 /\ trail[2].Rune = 102
    /\ trail[1].before.cursor < Len(trail[1].before.buffer)
    /\ w.buffer[trail[1].before.cursor + 1] = 175

(***************************************************************************)
(* Increment and decrement of the byte at the cursor, in Normal mode.      *)
(***************************************************************************)
\* Counts around the byte range: none, 1, 2, and 255, 256, 257.
IncCounts == {0, 1, 2, 255, 256, 257}

InitInc == InitWith(InitBuffers, Widths, {1, 2}, MaxTick)

\* The last command of the behaviour, recorded: increment with any count.
IncrementBy ==
    /\ trail = <<>>
    /\ Bound(mode, "Increment")
    /\ \E c \in IncCounts :
          Step("Increment", increment(w, c),
               <<[Type |-> "Increment", Count |-> c, before |-> w]>>, 1)

DecrementBy ==
    /\ trail = <<>>
    /\ Bound(mode, "Decrement")
    /\ \E c \in IncCounts :
          Step("Decrement", decrement(w, c),
               <<[Type |-> "Decrement", Count |-> c, before |-> w]>>, 1)

NextInc ==
    \/ CursorNext \/ CursorPrev \/ Increment \/ Decrement
    \/ IncrementBy \/ DecrementBy

SpecInc == InitInc /\ [][NextInc]_vars

\* C7: increment(count) turns the byte b at the cursor into
\* (b + max(count,1) mod 256) mod 256 and decrement(count) into
\* (b - max(count,1) mod 256) mod 256; no other byte, the cursor and the
\* viewport change; length stays, and becomes 1 on empty content.
C7_IncrementWrapsModulo256 ==
    Len(trail) = 1 =>
        LET b == trail[1].before
            d == Mod(MaxInt64(trail[1].Count, 1), 256)
            old == IF b.cursor < Len(b.buffer) THEN b.buffer[b.cursor + 1] ELSE 0
            new == IF trail[1].Type = "Increment"
                   THEN (old + d) % 256 ELSE (old + 256 - d) % 256
        IN /\ Len(w.buffer) = MaxInt64(Len(b.buffer), 1)
           /\ \A i \in 1..Len(w.buffer) :
                 w.buffer[i] = IF i = b.cursor + 1 THEN new ELSE b.buffer[i]
           /\ w.cursor = b.cursor /\ w.offset = b.offset
           /\ w.width = b.width /\ w.height = b.height
           /\ w.length = IF b.length = 0 THEN 1 ELSE b.length

\* 0xFF incremented with no count has wrapped to 0x00.
C7_Witness ==
    /\ Len(trail) = 1
    /\ trail[1].Type = "Increment" /\ trail[1].Count = 0
    /\ trail[1].before.cursor = 1
    /\ trail[1].before.buffer[2] = 255
    /\ w.buffer[2] = 0

(***************************************************************************)
(* Undo and redo of edits checkpointed in Normal mode.                     *)
(***************************************************************************)
UndoCounts == {0, 1, 2, 3}

InitUndo == InitWith({SubSeq(InitText, 1, 3)}, {2}, {1, 2}, MaxUndoTick)

\* The window is on the newest checkpoint, taken after a Normal-mode edit.
AfterCheckpointedEdit(win) ==
    /\ win.history.index = Len(win.history.entries)
    /\ win.history.index >= 2
    /\ HistCurrent(win.history).buffer = win.buffer

UndoFirst ==
    /\ trail = <<>>
    /\ mode = "Normal"
    /\ AfterCheckpointedEdit(w)
    /\ \E k \in UndoCounts :
          Step("Undo", undo(w, k), <<[Type |-> "Undo", Count |-> k, before |-> w]>>, 0)

RedoSame ==
    /\ Len(trail) = 1
    /\ Step("Redo", redo(w, trail[1].Count),
            Append(trail, [Type |-> "Redo", Count |-> trail[1].Count, before |-> w]), 0)

UndoAgain ==
    /\ Len(trail) = 2
    /\ Step("Undo", undo(w, trail[1].Count),
            Append(trail, [Type |-> "Undo", Count |-> trail[1].Count, before |-> w]), 0)

NextUndo ==
    \/ CursorNext \/ CursorPrev \/ DeleteByte \/ Increment \/ Undo \/ Redo
    \/ UndoFirst \/ RedoSame \/ UndoAgain

SpecUndo == InitUndo /\ [][NextUndo]_vars

\* Content, cursor, viewport offset and length of a window.
Restored(win) ==
    [buffer |-> win.buffer, cursor |-> win.cursor, offset |-> win.offset,
     length |-> win.length]

\* The window after the first Undo of the scenario.
AfterUndo == IF Len(trail) = 1 THEN w ELSE trail[2].before

\* C8: after an edit checkpointed in Normal mode, Undo(k) sets content,
\* cursor, viewport offset and length to those of the k-th prior checkpoint,
\* stopping at the oldest; and Undo(k), Redo(k), Undo(k) ends in the content,
\* cursor, viewport offset and length the first Undo(k) alone gave.
C8_UndoRedoUndoRoundTrip ==
    /\ Len(trail) >= 1 =>
          LET h == trail[1].before.history
              e == h.entries[MaxInt64(h.index - MaxInt64(trail[1].Count, 1), 1)]
          IN Restored(AfterUndo) =
                [buffer |-> e.buffer, cursor |-> e.cursor, offset |-> e.offset,
                 length |-> Len(e.buffer)]
    /\ Len(trail) = 3 => Restored(w) = Restored(AfterUndo)

\* Two edits were undone at once, redone and undone again.
C8_Witness ==
    /\ Len(trail) = 3
    /\ trail[1].Count = 2
    /\ trail[1].before.history.index = 3
    /\ trail[3].before.buffer = trail[1].before.buffer
    /\ w.buffer # trail[1].before.buffer
    /\ w.history.index = 1

(***************************************************************************)
(* The command loop step by step, with the goroutines that call state(),   *)
(* writeTo() and setSize() in between.                                     *)
(***************************************************************************)
\* The event types the dispatch layer sends here; "Other" is a type run's
\* switch does not know.
LoopTypes == {"CursorNext", "DeleteByte", "Increment", "Other"}

\* What the dispatch layer is going to send: up to MaxQueue events.
Programs ==
    UNION {[1..n -> LoopTypes] : n \in 0..MaxQueue}

InitLoop ==
    /\ \E wd \in {2}, ht \in {1} : w = setSize(newWindow(SubSeq(InitText, 1, 3)), wd, ht)
    /\ mode = "Normal"
    /\ fatal = FALSE
    /\ pc = "recv"
    /\ ev = "None"
    /\ mu = "free"
    /\ redraw = 0
    /\ queue \in Programs
    /\ closed = FALSE
    /\ reader = [c \in Callers |-> "idle"]
    /\ snap = [c \in Callers |-> <<>>]
    /\ committed = w
    /\ nredraw = 0
    /\ ncmd = 0
    /\ trail = <<>>
    /\ cap = [tick |-> MaxQueue]

\* The branch of run's switch for ev, applied to the window run locked.
Branch(win) ==
    CASE ev = "CursorNext" -> cursorNext(win, mode, 0)
      [] ev = "DeleteByte" -> deleteByte(win, 0)
      [] ev = "Increment" -> increment(win, 0)
      [] OTHER -> win

\* for e := range w.eventCh: the unbuffered channel hands over one event.
Recv ==
    /\ pc = "recv"
    /\ ~closed
    /\ queue # <<>>
    /\ ev' = Head(queue)
    /\ queue' = Tail(queue)
    /\ pc' = "lock"
    /\ UNCHANGED <<w, mode, fatal, mu, redraw, closed, reader, snap, committed,
                   nredraw, ncmd, trail, cap>>

\* w.mu.Lock()
Lock ==
    /\ pc = "lock"
    /\ mu = "free"
    /\ mu' = "run"
    /\ pc' = "switch"
    /\ UNCHANGED <<w, mode, fatal, ev, redraw, queue, closed, reader, snap,
                   committed, nredraw, ncmd, trail, cap>>

\* default: w.mu.Unlock(); continue
Skip ==
    /\ pc = "switch"
    /\ ev = "Other"
    /\ mu' = "free"
    /\ pc' = "recv"
    /\ UNCHANGED <<w, mode, fatal, ev, redraw, queue, closed, reader, snap,
                   committed, nredraw, ncmd, trail, cap>>

\* The branch has written the content and the cursor, not yet the rest.
Mutate1 ==
    /\ pc = "switch"
    /\ ev # "Other"
    /\ w' = [w EXCEPT !.buffer = Branch(committed).buffer,
                      !.changedTick = Branch(committed).changedTick,
                      !.cursor = Branch(committed).cursor]
    /\ pc' = "mutate"
    /\ UNCHANGED <<mode, fatal, ev, mu, redraw, queue, closed, reader, snap,
                   committed, nredraw, ncmd, trail, cap>>

\* The branch has returned.
Mutate2 ==
    /\ pc = "mutate"
    /\ w' = Branch(committed)
    /\ pc' = "push"
    /\ UNCHANGED <<mode, fatal, ev, mu, redraw, queue, closed, reader, snap,
                   committed, nredraw, ncmd, trail, cap>>

\* The checkpoint decision and w.prevChanged = changed.
Push ==
    /\ pc = "push"
    /\ w' = Checkpoint(committed, w, ev, mode)
    /\ pc' = "unlock"
    /\ UNCHANGED <<mode, fatal, ev, mu, redraw, queue, closed, reader, snap,
                   committed, nredraw, ncmd, trail, cap>>

\* run sends the redraw notification before it unlocks (a seeded fault).
SendThenUnlock ==
    /\ pc = "unlock"
    /\ redraw' = 1
    /\ pc' = "send"
    /\ ncmd' = ncmd + 1
    /\ UNCHANGED <<w, mode, fatal, ev, mu, queue, closed, reader, snap, committed,
                   nredraw, trail, cap>>

\* w.mu.Unlock(); then run blocks in w.redrawCh <- struct{}{}
Unlock ==
    /\ pc = "unlock"
    /\ mu' = "free"
    /\ committed' = w
    /\ redraw' = 1
    /\ pc' = "send"
    /\ ncmd' = ncmd + 1
    /\ UNCHANGED <<w, mode, fatal, ev, queue, closed, reader, snap, nredraw,
                   trail, cap>>

\* The renderer receives from redrawCh: the send returns.
Accept ==
    /\ pc = "send"
    /\ redraw = 1
    /\ redraw' = 0
    /\ nredraw' = nredraw + 1
    /\ pc' = "recv"
    /\ UNCHANGED <<w, mode, fatal, ev, mu, queue, closed, reader, snap, committed,
                   ncmd, trail, cap>>

\* A caller's step leaves the loop's variables alone.
CallerFrame ==
    UNCHANGED <<mode, fatal, pc, ev, redraw, queue, closed, nredraw, ncmd, trail, cap>>

\* state() without w.mu.Lock() (a seeded fault).
StateNoLock(c) ==
    /\ reader[c] = "idle"
    /\ reader' = [reader EXCEPT ![c] = "state:read"]
    /\ snap' = [snap EXCEPT ![c] = <<>>]
    /\ UNCHANGED <<w, mu, committed>>
    /\ CallerFrame

\* state(): w.mu.Lock()
StateLock(c) ==
    /\ reader[c] = "idle"
    /\ mu = "free"
    /\ mu' = c
    /\ reader' = [reader EXCEPT ![c] = "state:read"]
    /\ snap' = [snap EXCEPT ![c] = <<>>]
    /\ UNCHANGED <<w, committed>>
    /\ CallerFrame

\* n, bytes, err := w.readBytes(w.offset, int(w.height*w.width))
StateRead(c) ==
    /\ reader[c] = "state:read"
    /\ snap' = [snap EXCEPT ![c] =
                  <<readBytes(w, w.offset, w.height * w.width)>>]
    /\ reader' = [reader EXCEPT ![c] = "state:fields"]
    /\ UNCHANGED <<w, mu, committed>>
    /\ CallerFrame

\* The fields state() copies into the WindowState.
StateFieldsOf(win) ==
    [Width |-> win.width, Offset |-> win.offset, Cursor |-> win.cursor,
     Length |-> win.length, Pending |-> win.pending,
     PendingByte |-> win.pendingByte, VisualStart |-> win.visualStart,
     FocusText |-> win.focusText]

\* return &state.WindowState{...}
StateFields(c) ==
    /\ reader[c] = "state:fields"
    /\ snap' = [snap EXCEPT ![c] = Append(snap[c], StateFieldsOf(w))]
    /\ reader' = [reader EXCEPT ![c] = "state:ret"]
    /\ UNCHANGED <<w, mu, committed>>
    /\ CallerFrame

\* The deferred w.mu.Unlock() of state() and writeTo().
ReadUnlock(c) ==
    /\ reader[c] \in {"state:ret", "writeTo:ret"}
    /\ mu' = "free"
    /\ reader' = [reader EXCEPT ![c] = "idle"]
    /\ snap' = [snap EXCEPT ![c] = <<>>]
    /\ UNCHANGED <<w, committed>>
    /\ CallerFrame

\* The ranges writeTo is called with: nil, and cursor-1 .. end.
WriteRanges ==
    {NoRange, [nil |-> FALSE, From |-> Pos("Relative", -1), To |-> Pos("End", 0)]}

\* writeTo(r, dst): w.mu.Lock()
WriteToLock(c) ==
    /\ reader[c] = "idle"
    /\ mu = "free"
    /\ mu' = c
    /\ \E r \in WriteRanges :
          /\ reader' = [reader EXCEPT ![c] = "writeTo:range"]
          /\ snap' = [snap EXCEPT ![c] = <<r>>]
    /\ UNCHANGED <<w, committed>>
    /\ CallerFrame

\* from and to of the range: 0 and the last offset for a nil range.
RangeEnds(win, r) ==
    IF r.nil THEN <<0, BufLen(win.buffer) - 1>>
    ELSE LET from == positionToOffset(win, r.From).off
             to == positionToOffset(win, r.To).off
         IN IF from > to THEN <<to, from>> ELSE <<from, to>>

\* from, err = w.positionToOffset(r.From); to, err = ...; from > to swaps
WriteToRange(c) ==
    /\ reader[c] = "writeTo:range"
    /\ snap' = [snap EXCEPT ![c] = Append(snap[c], RangeEnds(w, snap[c][1]))]
    /\ reader' = [reader EXCEPT ![c] = "writeTo:copy"]
    /\ UNCHANGED <<w, mu, committed>>
    /\ CallerFrame

\* Seek(from) and io.Copy of to-from+1 bytes, fewer at the end of content.
CopyRange(win, ends) ==
    SubSeq(win.buffer, ends[1] + 1, MinInt64(ends[2] + 1, BufLen(win.buffer)))

WriteToCopy(c) ==
    /\ reader[c] = "writeTo:copy"
    /\ snap' = [snap EXCEPT ![c] = Append(snap[c], CopyRange(w, snap[c][2]))]
    /\ reader' = [reader EXCEPT ![c] = "writeTo:ret"]
    /\ UNCHANGED <<w, mu, committed>>
    /\ CallerFrame

\* setSize(width, height): w.mu.Lock()
SetSizeLock(c) ==
    /\ reader[c] = "idle"
    /\ mu = "free"
    /\ w.width = 2
    /\ mu' = c
    /\ reader' = [reader EXCEPT ![c] = "setSize:dims"]
    /\ UNCHANGED <<w, snap, committed>>
    /\ CallerFrame

\* w.width, w.height = int64(width), int64(height), here 3 and 1
SetSizeDims(c) ==
    /\ reader[c] = "setSize:dims"
    /\ w' = [w EXCEPT !.width = 3, !.height = 1]
    /\ reader' = [reader EXCEPT ![c] = "setSize:offset"]
    /\ UNCHANGED <<mu, snap, committed>>
    /\ CallerFrame

\* The three assignments to w.offset.
SetSizeOffset(c) ==
    /\ reader[c] = "setSize:offset"
    /\ w' = setSize(w, w.width, w.height)
    /\ reader' = [reader EXCEPT ![c] = "setSize:ret"]
    /\ UNCHANGED <<mu, snap, committed>>
    /\ CallerFrame

\* The deferred w.mu.Unlock() of setSize.
SetSizeUnlock(c) ==
    /\ reader[c] = "setSize:ret"
    /\ mu' = "free"
    /\ committed' = w
    /\ reader' = [reader EXCEPT ![c] = "idle"]
    /\ UNCHANGED <<w, snap>>
    /\ CallerFrame

NextLoop ==
    \/ Recv \/ Lock \/ Skip \/ Mutate1 \/ Mutate2 \/ Push \/ Unlock \/ Accept
    \/ \E c \in Callers :
          \/ StateLock(c) \/ StateRead(c) \/ StateFields(c) \/ ReadUnlock(c)
          \/ WriteToLock(c) \/ WriteToRange(c) \/ WriteToCopy(c)
          \/ SetSizeLock(c) \/ SetSizeDims(c) \/ SetSizeOffset(c)
          \/ SetSizeUnlock(c)

SpecLoop == InitLoop /\ [][NextLoop]_vars

\* run is between Lock and Unlock.
RunInside == pc \in {"switch", "mutate", "push", "unlock"}

\* Caller c is between Lock and Unlock of state, writeTo or setSize.
CallerInside(c) == reader[c] # "idle"

\* C9: a snapshot taken by state(), and a range taken by writeTo(), is that
\* of the window as it was between two whole commands; and at most one of
\* run's mutation section, setSize, state and writeTo is inside the lock.
C9_ReadersSeeWholeCommands ==
    /\ \A c \in Callers :
          /\ reader[c] = "state:ret" =>
                snap[c] = <<readBytes(committed, committed.offset,
                                      committed.height * committed.width),
                            StateFieldsOf(committed)>>
          /\ reader[c] = "writeTo:ret" =>
                /\ snap[c][2] = RangeEnds(committed, snap[c][1])
                /\ snap[c][3] = CopyRange(committed, snap[c][2])
    /\ Cardinality({c \in Callers : CallerInside(c)})
         + (IF RunInside THEN 1 ELSE 0) <= 1

\* state() has its snapshot after run deleted a byte, and another caller
\* waits while run waits for the renderer.
C9_Witness ==
    /\ \E c \in Callers :
          /\ reader[c] = "state:ret"
          /\ snap[c][2].Length = 2
    /\ ncmd = 1
    /\ pc = "send"

\* What C10 requires of every state.
LoopOrderInv ==
    /\ pc = "send" => mu # "run" /\ redraw = 1
    /\ pc # "send" => redraw = 0
    /\ ncmd = nredraw + redraw
    /\ RunInside => mu = "run"
    /\ (pc = "send" /\ \A c \in Callers : reader[c] = "idle") => mu = "free"

\* What C10 requires of every step.
LoopOrderStep ==
    /\ w'.history # w.history => pc = "push" /\ mu = "run" /\ pc' = "unlock"
    /\ (w'.buffer # w.buffer \/ w'.cursor # w.cursor) => mu = "run" /\ mu' = "run"
    /\ redraw' > redraw => pc = "unlock" /\ mu' # "run" /\ redraw' = 1
    /\ nredraw' # nredraw => nredraw' = nredraw + 1 /\ pc = "send"
    /\ queue' # queue => redraw = 0 /\ pc = "recv" /\ ncmd = nredraw
    /\ (ev # "Other" /\ pc = "switch" /\ pc' # pc) => pc' = "mutate"

\* C10: for every recognised command run locks, mutates, pushes the
\* checkpoint if any, unlocks and then sends exactly one redraw; it takes no
\* further event before that send is accepted and never holds the lock while
\* blocked in the send, so that state() can acquire it.
C10_LockMutateUnlockThenOneRedraw ==
    [](LoopOrderInv) /\ [][LoopOrderStep]_vars

\* run is blocked in its second redraw send, the lock free.
C10_Witness ==
    /\ pc = "send"
    /\ nredraw = 1
    /\ ncmd = 2
    /\ mu = "free"
    /\ Len(w.history.entries) > 1

(***************************************************************************)
(* Teardown: close() closes eventCh, and run's range loop ends at its next *)
(* receive.  The events the dispatch layer has not handed over stay unsent.*)
(***************************************************************************)
\* close(w.eventCh), by the goroutine that owns the window.
Close ==
    /\ ~closed
    /\ closed' = TRUE
    /\ UNCHANGED <<w, mode, fatal, pc, ev, mu, redraw, queue, reader, snap,
                   committed, nredraw, ncmd, trail, cap>>

\* The range loop leaves as soon as run is told the channel is closed,
\* wherever run is (a seeded fault).
ExitAtOnce ==
    /\ pc # "done"
    /\ closed
    /\ pc' = "done"
    /\ UNCHANGED <<w, mode, fatal, ev, mu, redraw, queue, closed, reader, snap,
                   committed, nredraw, ncmd, trail, cap>>

\* for e := range w.eventCh: the receive reports the channel closed and run
\* returns.
Exit ==
    /\ pc = "recv"
    /\ closed
    /\ pc' = "done"
    /\ UNCHANGED <<w, mode, fatal, ev, mu, redraw, queue, closed, reader, snap,
                   committed, nredraw, ncmd, trail, cap>>

\* The steps of a caller that holds the mutex, up to its Unlock.
CallerRuns(c) ==
    \/ StateRead(c) \/ StateFields(c) \/ ReadUnlock(c)
    \/ WriteToRange(c) \/ WriteToCopy(c)
    \/ SetSizeDims(c) \/ SetSizeOffset(c) \/ SetSizeUnlock(c)

NextClose == NextLoop \/ Close \/ Exit

\* The goroutine of run keeps running; sync.Mutex hands the lock to a waiter
\* that has been starved (starvation mode), so run's Lock is strongly fair;
\* the renderer consumes every pending redraw notification; a caller that
\* holds the mutex runs on to its Unlock.
SpecClose ==
    /\ InitLoop
    /\ [][NextClose]_vars
    /\ WF_vars(Skip \/ Mutate1 \/ Mutate2 \/ Push \/ Unlock \/ Exit)
    /\ SF_vars(Lock)
    /\ WF_vars(Accept)
    /\ \A c \in Callers : WF_vars(CallerRuns(c))

\* run leaves only from its receive, every command it took unlocked and its
\* redraw accepted.
ExitsBetweenCommands ==
    (pc' = "done" /\ pc # "done") =>
        /\ pc = "recv" /\ closed
        /\ redraw = 0 /\ mu # "run" /\ ncmd = nredraw

\* Once run has returned it takes no event and changes nothing.
NothingAfterExit ==
    pc = "done" =>
        /\ pc' = "done" /\ queue' = queue /\ ev' = ev
        /\ ncmd' = ncmd /\ nredraw' = nredraw /\ redraw' = redraw
        /\ w'.buffer = w.buffer /\ w'.cursor = w.cursor
        /\ w'.history = w.history /\ w'.changedTick = w.changedTick

\* A recognised command that run holds when the queue is closed gets its
\* redraw accepted: the n-th command taken becomes the n-th redraw.
DequeuedIsFinished ==
    \A n \in 0..MaxQueue :
        (closed /\ pc \in {"lock", "switch", "mutate", "push", "unlock", "send"}
            /\ ev # "Other" /\ nredraw = n)
          ~> (nredraw = n + 1)

\* C11: once close() has closed the command queue, and the renderer consumes
\* every pending redraw, run eventually exits; a command run had already
\* taken is applied completely (mutation, checkpoint decision, unlock, redraw
\* accepted) before run exits, and nothing is processed after the exit.
C11_CloseEndsLoopAfterCurrentCommand ==
    /\ closed ~> (pc = "done")
    /\ DequeuedIsFinished
    /\ [][ExitsBetweenCommands /\ NothingAfterExit]_vars

\* The queue was closed while run is in the middle of a command, with
\* events left unsent.
C11_Witness ==
    /\ closed
    /\ pc = "mutate"
    /\ queue # <<>>

(***************************************************************************)
(* Position resolution with and without a visual selection, in cursorGoto  *)
(* and in writeTo.                                                         *)
(***************************************************************************)
\* writeTo(r, dst) between Lock and Unlock: the error, the bytes written to
\* dst and their number.
writeTo(win, r) ==
    IF r.nil THEN [ok |-> TRUE, n |-> BufLen(win.buffer), out |-> win.buffer]
    ELSE IF ~positionToOffset(win, r.From).ok THEN [ok |-> FALSE, n |-> 0, out |-> <<>>]
    ELSE IF ~positionToOffset(win, r.To).ok THEN [ok |-> FALSE, n |-> 0, out |-> <<>>]
    ELSE LET out == CopyRange(win, RangeEnds(win, r))
         IN [ok |-> TRUE, n |-> Len(out), out |-> out]

PositionKinds == {"Absolute", "Relative", "End", "VisualStart", "VisualEnd"}

PositionOffsets == {-2, 0, 1, 9}

AllPositions == {Pos(k, n) : k \in PositionKinds, n \in PositionOffsets}

\* Ranges with either end of any kind, or nil.
PosRanges ==
    {[nil |-> FALSE, From |-> p, To |-> q] : p, q \in AllPositions \cup {NoPos}}

InitPos == InitWith(InitBuffers, {2}, {1, 2}, 0)

\* The last command of the behaviour, recorded: a goto with any range.
GotoAt ==
    /\ trail = <<>>
    /\ Bound(mode, "CursorGoto")
    /\ \E r \in PosRanges :
          Step("CursorGoto", cursorGoto(w, r),
               <<[Type |-> "CursorGoto", Range |-> r, before |-> w]>>, 0)

\* A call of writeTo between two commands, recorded with what it returned.
WriteToAt ==
    /\ trail = <<>>
    /\ ~fatal
    /\ LoopIdle
    /\ \E r \in PosRanges :
          trail' = <<[Type |-> "writeTo", Range |-> r, before |-> w,
                      result |-> writeTo(w, r)]>>
    /\ UNCHANGED <<w, mode, fatal, pc, ev, mu, redraw, queue, closed, reader, snap,
                   committed, nredraw, ncmd, cap>>

NextPos ==
    \/ CursorNext \/ CursorPrev \/ StartVisual \/ ExitVisual \/ GotoAt \/ WriteToAt

SpecPos == InitPos /\ [][NextPos]_vars

\* Position p is relative to the selection and win has none.
NoSelection(win, p) ==
    p.kind \in {"VisualStart", "VisualEnd"} /\ win.visualStart = -1

\* The position cursorGoto goes to: To, or From when To is nil.
GotoTarget(r) == IF r.To.kind # "nil" THEN r.To ELSE r.From

\* C12: a VisualStart- or VisualEnd-relative position resolved with no
\* selection active (visualStart = -1) yields a failure: writeTo with such a
\* From or To returns an error and writes zero bytes, cursorGoto with such a
\* target leaves cursor and viewport offset unchanged; Absolute, Relative and
\* End positions always resolve.
C12_NoSelectionIsAFailure ==
    /\ \A p \in AllPositions :
          /\ p.kind \in {"Absolute", "Relative", "End"} => positionToOffset(w, p).ok
          /\ NoSelection(w, p) => ~positionToOffset(w, p).ok
    /\ Len(trail) = 1 =>
          LET b == trail[1].before
              r == trail[1].Range
          IN /\ (trail[1].Type = "writeTo"
                   /\ (NoSelection(b, r.From) \/ NoSelection(b, r.To))) =>
                    /\ ~trail[1].result.ok
                    /\ trail[1].result.n = 0
                    /\ trail[1].result.out = <<>>
             /\ (trail[1].Type = "CursorGoto" /\ NoSelection(b, GotoTarget(r))) =>
                    /\ w.cursor = b.cursor
                    /\ w.offset = b.offset

\* writeTo was called for the range from the selection's start to the end
\* of content with no selection active, away from offset 0, and failed.
C12_Witness ==
    /\ Len(trail) = 1
    /\ trail[1].Type = "writeTo"
    /\ trail[1].Range.From = Pos("VisualStart", 0)
    /\ trail[1].Range.To = Pos("End", 0)
    /\ trail[1].before.visualStart = -1
    /\ trail[1].before.cursor = 2
    /\ ~trail[1].result.ok

(***************************************************************************)
(* The panics of run: Undo and Redo stamped with a mode other than Normal, *)
(* and SwitchVisualEnd with no selection.                                  *)
(***************************************************************************)
Modes == {"Normal", "Insert", "Replace", "Visual"}

\* The types of event whose branch can panic.
GuardedTypes == {"Undo", "Redo", "SwitchVisualEnd"}

\* switchVisualEnd swapping before it looks at visualStart (a seeded fault).
switchVisualEndSwapsFirst(win) ==
    LET w1 == [win EXCEPT !.cursor = win.visualStart, !.visualStart = win.cursor]
    IN IF win.visualStart < 0 THEN [panic |-> TRUE, win |-> w1]
       ELSE [panic |-> FALSE, win |-> switchVisualEnd(win)]

\* switchVisualEnd with its panic: the window as it is when run dies.
switchVisualEndOrPanic(win) ==
    IF win.visualStart < 0 THEN [panic |-> TRUE, win |-> win]
    ELSE [panic |-> FALSE, win |-> switchVisualEnd(win)]

\* The Undo, Redo and SwitchVisualEnd branches of run's switch for an event
\* stamped with mode m: the mode is looked at before undo or redo is called.
GuardedBranch(win, t, m, count) ==
    CASE t = "Undo" -> IF m # "Normal" THEN [panic |-> TRUE, win |-> win]
                       ELSE [panic |-> FALSE, win |-> undo(win, count)]
      [] t = "Redo" -> IF m # "Normal" THEN [panic |-> TRUE, win |-> win]
                       ELSE [panic |-> FALSE, win |-> redo(win, count)]
      [] t = "SwitchVisualEnd" -> switchVisualEndOrPanic(win)
      [] OTHER -> [panic |-> FALSE, win |-> win]

\* An event the dispatch layer's tables do not send makes run panic: run
\* dies inside its switch, holding the mutex.  Recorded.
Offend ==
    /\ trail = <<>>
    /\ ~fatal
    /\ LoopIdle
    /\ \E t \in GuardedTypes, m \in Modes, c \in Counts :
          LET r == GuardedBranch(w, t, m, c)
          IN /\ r.panic
             /\ w' = r.win
             /\ trail' = <<[Type |-> t, Mode |-> m, before |-> w]>>
    /\ fatal' = TRUE
    /\ pc' = "panicked"
    /\ mu' = "run"
    /\ UNCHANGED <<mode, ev, redraw, queue, closed, reader, snap, committed,
                   nredraw, ncmd, cap>>

NextFatal ==
    \/ CursorNext \/ CursorPrev \/ DeleteByte
    \/ StartInsert \/ ExitInsert \/ Undo \/ Redo
    \/ StartVisual \/ SwitchVisualEnd \/ ExitVisual \/ Offend

InitFatal == InitWith(EditBuffers, {2}, {1}, MaxTick)

SpecFatal == InitFatal /\ [][NextFatal]_vars

\* An event of type t stamped with mode m is one of the three misuses.
Misuse(win, t, m) ==
    \/ t \in {"Undo", "Redo"} /\ m # "Normal"
    \/ t = "SwitchVisualEnd" /\ win.visualStart = -1

\* C13: Undo or Redo stamped with a mode other than Normal, and
\* SwitchVisualEnd with visualStart = -1, halt the loop (fatal) and change
\* neither content, cursor, viewport offset, length nor history; as long as
\* Undo and Redo are sent in Normal mode only and SwitchVisualEnd only
\* between startVisual and exitVisual, the loop is never halted.
C13_MisuseHaltsWithoutChange ==
    /\ trail = <<>> =>
          /\ ~fatal
          /\ \A t \in GuardedTypes, m \in Modes :
                Misuse(w, t, m) <=> GuardedBranch(w, t, m, 0).panic
          /\ \A t \in GuardedTypes :
                Bound(mode, t) => ~GuardedBranch(w, t, mode, 0).panic
    /\ fatal =>
          /\ Len(trail) = 1
          /\ Misuse(trail[1].before, trail[1].Type, trail[1].Mode)
          /\ w.buffer = trail[1].before.buffer
          /\ w.cursor = trail[1].before.cursor
          /\ w.offset = trail[1].before.offset
          /\ w.length = trail[1].before.length
          /\ w.history = trail[1].before.history

\* SwitchVisualEnd arrived after the selection was ended, with the cursor
\* away from offset 0 and an edit to undo in the history: run is halted.
C13_Witness ==
    /\ fatal
    /\ trail[1].Type = "SwitchVisualEnd"
    /\ trail[1].before.cursor > 0
    /\ Len(w.history.entries) > 1

(***************************************************************************)
(* A search, forward or backward, for a pattern the content does not hold. *)
(***************************************************************************)
\* The patterns searched for: a NUL byte, bytes of InitText and bytes that
\* are not in it.
SearchPatterns == {<<0>>, <<255, 49>>, <<50>>, <<7>>, <<0, 0>>}

InitSearch == InitWith(InitBuffers, {2}, {1, 2}, 0)

\* The last command of the behaviour, recorded: a search in either direction.
SearchFor ==
    /\ trail = <<>>
    /\ Bound(mode, "ExecuteSearch")
    /\ \E a \in SearchPatterns, u \in SearchRunes :
          Step("ExecuteSearch", search(w, a, u = Slash),
               <<[Type |-> "ExecuteSearch", Arg |-> a, Forward |-> (u = Slash),
                  before |-> w]>>, 0)

NextSearchFor == CursorNext \/ CursorPrev \/ CursorDown \/ SearchFor

SpecSearch == InitSearch /\ [][NextSearchFor]_vars

\* The content covered by the scan of a search from win: size bytes from
\* one byte after the cursor, or the size bytes that end at the cursor.
ScannedContent(win, target, forward) ==
    LET size == SearchSize(win, target)
        from == IF forward THEN win.cursor + 1 ELSE MaxInt64(0, win.cursor - size)
        to == IF forward THEN win.cursor + size ELSE win.cursor - 1
    IN SubSeq(win.buffer, from + 1, MinInt64(to + 1, BufLen(win.buffer)))

\* pat occurs in the sequence of bytes s.
Occurs(pat, s) ==
    \E i \in 1..(Len(s) - Len(pat) + 1) : SubSeq(s, i, i + Len(pat) - 1) = pat

\* C14: a forward or backward search whose pattern does not occur in the
\* content covered by its scan window leaves cursor and viewport offset
\* unchanged, also when the scan window reaches past end-of-content.
C14_NoMatchLeavesCursor ==
    (Len(trail) = 1
       /\ ~Occurs(trail[1].Arg,
                  ScannedContent(trail[1].before, trail[1].Arg, trail[1].Forward))) =>
        /\ w.cursor = trail[1].before.cursor
        /\ w.offset = trail[1].before.offset

(***************************************************************************)
(* jumpTo with the cursor inside a number, near the start of the content   *)
(* and further in.                                                         *)
(***************************************************************************)
\* The text "see line 42 " followed by 32 dots: 44 bytes, so that 42 is an
\* offset of the content.
SeeLineText ==
    <<115, 101, 101, 32, 108, 105, 110, 101, 32, 52, 50, 32>>
        \o [i \in 1..32 |-> 46]

InitJumpTo == InitWith({SeeLineText, JumpText}, {3}, {1, 2}, 0)

\* The last command of the behaviour, recorded: jumpTo.
JumpToAt ==
    /\ trail = <<>>
    /\ Bound(mode, "JumpTo")
    /\ Step("JumpTo", jumpTo(w), <<[Type |-> "JumpTo", before |-> w]>>, 0)

NextJumpTo == CursorNext \/ CursorPrev \/ PageEnd \/ JumpToAt

SpecJumpTo == InitJumpTo /\ [][NextJumpTo]_vars

\* The cursor of win is on a decimal digit.
OnDigit(win) ==
    win.cursor < BufLen(win.buffer) /\ isDigit(win.buffer[win.cursor + 1])

\* First and last offset of the run of digits the cursor of win is in.
RunStart(win) ==
    CHOOSE k \in 0..win.cursor :
        /\ \A m \in k..win.cursor : isDigit(win.buffer[m + 1])
        /\ (k = 0 \/ ~isDigit(win.buffer[k]))

RunEnd(win) ==
    CHOOSE k \in win.cursor..(BufLen(win.buffer) - 1) :
        /\ \A m \in win.cursor..k : isDigit(win.buffer[m + 1])
        /\ (k = BufLen(win.buffer) - 1 \/ ~isDigit(win.buffer[k + 2]))

\* The number the run of digits around the cursor of win reads as.
RunValue(win) ==
    ParseDigits(SubSeq(win.buffer, RunStart(win) + 1, RunEnd(win) + 1), 0)

\* C15: for every cursor position, also below 50: with the cursor inside a
\* run of decimal digits that ends within 50 bytes on both sides and whose
\* value v has 0 < v < length, jumpTo pushes the (cursor, offset) pair on
\* the jump stack and sets cursor = v ("see line 42 " with the cursor in
\* "42" jumps to 42).
C15_JumpToGoesToNumberAtCursor ==
    (Len(trail) = 1 /\ OnDigit(trail[1].before)) =>
        LET b == trail[1].before
            v == RunValue(b)
        IN (/\ b.cursor - RunStart(b) < JumpWindow
            /\ RunEnd(b) - b.cursor < JumpWindow
            /\ 0 < v /\ v < b.length) =>
               /\ w.stack = Append(b.stack, [cursor |-> b.cursor, offset |-> b.offset])
               /\ w.cursor = v

\* jumpTo on the number 52 at offsets 51 and 52 has jumped to offset 52.
C15_Witness ==
    /\ Len(trail) = 1
    /\ trail[1].before.cursor = 51
    /\ w.cursor = 52
    /\ Len(w.stack) = 1

(***************************************************************************)
(* The commands that are silent no-ops at a boundary, sent in any mode     *)
(* that binds them and in any edit-assembly state.                         *)
(***************************************************************************)
NoOpTypes == {"CursorUp", "CursorLeft", "CursorDown", "JumpBack", "JumpTo"}

\* The branch of run's switch for the five types.
NoOpBranch(win, t, count) ==
    CASE t = "CursorUp" -> cursorUp(win, count)
      [] t = "CursorLeft" -> cursorLeft(win, count)
      [] t = "CursorDown" -> cursorDown(win, count)
      [] t = "JumpBack" -> jumpBack(win)
      [] t = "JumpTo" -> jumpTo(win)

\* The last command of the behaviour, recorded: one of the five.
NoOpAt ==
    /\ trail = <<>>
    /\ \E t \in NoOpTypes, c \in Counts :
          /\ Bound(mode, t)
          /\ Step(t, NoOpBranch(w, t, c),
                  <<[Type |-> t, Count |-> c, before |-> w]>>, 0)

NextNoOp == NextEdit \/ JumpTo \/ JumpBack \/ NoOpAt

SpecNoOp == InitEdit /\ [][NextNoOp]_vars

\* win is at the boundary where a command of type t has nothing to do.
AtBoundary(win, t) ==
    CASE t = "CursorUp" -> Div(win.cursor, win.width) = 0
      [] t = "CursorLeft" -> Mod(win.cursor, win.width) = 0
      [] t = "CursorDown" ->
           Div(win.cursor, win.width) = Div(MaxInt64(win.length, 1) - 1, win.width)
      [] t = "JumpBack" -> win.stack = <<>>
      [] t = "JumpTo" ->
           \A k \in 1..BufLen(win.buffer) :
               (k - 1 > win.cursor - JumpWindow /\ k - 1 < win.cursor + JumpWindow)
                  => ~isDigit(win.buffer[k])

\* C16: cursorUp on row 0, cursorLeft at column 0, cursorDown on the last
\* content row, jumpBack on an empty jump stack and jumpTo with no digits at
\* the cursor leave cursor, viewport offset, length, content and jump stack
\* as they were, in every mode and every edit-assembly state.
C16_BoundaryCommandsChangeNothing ==
    (Len(trail) = 1 /\ AtBoundary(trail[1].before, trail[1].Type)) =>
        /\ w.cursor = trail[1].before.cursor
        /\ w.offset = trail[1].before.offset
        /\ w.length = trail[1].before.length
        /\ w.buffer = trail[1].before.buffer
        /\ w.stack = trail[1].before.stack

(***************************************************************************)
(* The checkpoint an ExitInsert owes to the content changes of its run.    *)
(***************************************************************************)
\* The last command of the behaviour, recorded: ExitInsert.
ExitInsertAt ==
    /\ trail = <<>>
    /\ Bound(mode, "ExitInsert")
    /\ Step("ExitInsert", exitInsert(w), <<[Type |-> "ExitInsert", before |-> w]>>, 0)

NextExitInsert == NextEdit \/ ExitInsertAt

SpecExitInsert == InitEdit /\ [][NextExitInsert]_vars

\* The content of win is the content of its current checkpoint.
Covered(win) == win.buffer = HistCurrent(win.history).buffer

\* C17: when content was changed in Insert or Replace mode and no checkpoint
\* covers the change yet, the ExitInsert that ends the run pushes the
\* checkpoint (content, offset, cursor), whatever the commands of the run
\* were, a pending first nibble, a cancelled nibble and a focus switch as
\* the last one included; so after ExitInsert the content is checkpointed.
C17_ExitInsertCheckpointsTheRun ==
    Len(trail) = 1 =>
        /\ ~Covered(trail[1].before) =>
              /\ Len(w.history.entries) = trail[1].before.history.index + 1
              /\ HistCurrent(w.history) =
                    [buffer |-> w.buffer, offset |-> w.offset, cursor |-> w.cursor]
        /\ Covered(w)

\* ExitInsert has pushed the checkpoint of a run that inserted a byte.
C17_Witness ==
    /\ Len(trail) = 1
    /\ ~Covered(trail[1].before)
    /\ Covered(w)
    /\ Len(w.buffer) = Len(trail[1].before.history.entries[1].buffer) + 1

(***************************************************************************)
(* Checkpoints of the commands processed in Normal mode.                   *)
(***************************************************************************)
NextNormal ==
    \/ CursorNext \/ CursorPrev \/ CursorDown \/ ScrollDown \/ PageEnd
    \/ JumpTo \/ JumpBack \/ ExecuteSearch
    \/ DeleteByte \/ DeletePrevByte \/ Increment \/ Decrement
    \/ SwitchFocus \/ Undo \/ Redo
    \/ StartVisual \/ ExitVisual

SpecNormal == InitEdit /\ [][NextNormal]_vars

\* The step has pushed exactly one checkpoint: that of the window it leads to.
PushedOne == w'.history = HistPush(w.history, w'.buffer, w'.offset, w'.cursor)

\* The step has moved along the history (undo, redo) and pushed nothing.
MovedInHistory ==
    /\ w'.history.entries = w.history.entries
    /\ w'.history.index # w.history.index
    /\ w'.buffer = HistCurrent(w'.history).buffer

\* What C18 requires of a step taken in Normal mode.
NormalStep ==
    mode = "Normal" =>
        \/ w'.buffer = w.buffer /\ w'.history = w.history
        \/ w'.buffer # w.buffer /\ PushedOne
        \/ MovedInHistory

\* C18: in Normal mode a command pushes a checkpoint only if it mutated the
\* content (navigation, scrolling, search, jump, visual-selection and
\* focus-switch commands push nothing), a command that mutates the content
\* pushes exactly one, and Undo and Redo push none.
C18_NormalModePushesOnMutationOnly == [][NormalStep]_vars

(***************************************************************************)
(* A navigation command that follows a command of an insert or replace run.*)
(***************************************************************************)
\* The navigation commands bound in Insert and Replace mode.
InsertNavTypes ==
    {"CursorUp", "CursorDown", "CursorLeft", "CursorRight", "CursorPrev",
     "CursorNext", "PageUp", "PageDown", "PageTop", "PageEnd"}

\* The branch of run's switch for a navigation command of those.
NavBranch(win, t, m, count) ==
    CASE t = "CursorUp" -> cursorUp(win, count)
      [] t = "CursorDown" -> cursorDown(win, count)
      [] t = "CursorLeft" -> cursorLeft(win, count)
      [] t = "CursorRight" -> cursorRight(win, m, count)
      [] t = "CursorPrev" -> cursorPrev(win, count)
      [] t = "CursorNext" -> cursorNext(win, m, count)
      [] t = "PageUp" -> pageUp(win)
      [] t = "PageDown" -> pageDown(win)
      [] t = "PageTop" -> pageTop(win)
      [] t = "PageEnd" -> pageEnd(win)

\* The other commands bound in Insert and Replace mode that stay in it.
RunTypes == {"Rune", "Backspace", "Delete", "SwitchFocus"}

RunBranch(win, t, m, count, rune) ==
    CASE t = "Rune" -> insertRune(win, m, rune)
      [] t = "Backspace" -> backspace(win)
      [] t = "Delete" -> deleteByte(win, 1)
      [] t = "SwitchFocus" -> switchFocus(win)
      [] OTHER -> NavBranch(win, t, m, count)

\* A command of the run, recorded.
FirstInRun ==
    /\ trail = <<>>
    /\ mode \in {"Insert", "Replace"}
    /\ \E t \in RunTypes \cup InsertNavTypes, c \in Counts, u \in Runes :
          /\ Bound(mode, t)
          /\ Step(t, RunBranch(w, t, mode, c, u), <<[Type |-> t, before |-> w]>>, 1)

\* The navigation command that follows it at once, recorded.
ThenNav ==
    /\ Len(trail) = 1
    /\ trail[1].Type \in RunTypes \cup InsertNavTypes
    /\ \E t \in InsertNavTypes, c \in Counts :
          /\ Bound(mode, t)
          /\ Step(t, NavBranch(w, t, mode, c),
                  Append(trail, [Type |-> t, before |-> w]), 1)

NextNavAfterEdit ==
    \/ CursorNext \/ CursorDown \/ StartInsert \/ StartAppend \/ StartReplace
    \/ Rune \/ Backspace \/ SwitchFocus \/ ExitInsert
    \/ FirstInRun \/ ThenNav

SpecNavAfterEdit == InitEdit /\ [][NextNavAfterEdit]_vars

\* The command of type t that led from a to b wrote to the content: it
\* called insert, replace or delete (a focus switch counts a change without
\* writing).
WroteContent(a, b, t) == b.changedTick # a.changedTick /\ t # "SwitchFocus"

\* C19: in Insert or Replace mode a navigation command that follows at once
\* a command that changed the content pushes exactly one checkpoint, with
\* the offset and cursor as they were before the navigation command; one
\* that follows a command that changed nothing pushes none.
C19_NavAfterEditClosesTheRun ==
    (Len(trail) = 2 /\ trail[2].Type \in InsertNavTypes) =>
        LET a == trail[1].before
            b == trail[2].before
        IN IF WroteContent(a, b, trail[1].Type)
           THEN w.history = HistPush(b.history, b.buffer, b.offset, b.cursor)
           ELSE w.history = b.history

\* PageTop after the second nibble of an inserted byte has pushed the
\* checkpoint with the cursor where the insert left it.
C19_Witness ==
    /\ Len(trail) = 2
    /\ trail[1].Type = "Rune" /\ trail[2].Type = "PageTop"
    /\ trail[2].before.cursor > 0
    /\ w.cursor = 0
    /\ HistCurrent(w.history).cursor = trail[2].before.cursor
    /\ Len(w.history.entries) = 2

(***************************************************************************)
(* The range of the viewport offset.                                       *)
(***************************************************************************)
\* The largest offset that still shows the last row at the bottom:
\* max(ceil(length/width) - height, 0) * width.
MaxOffset(win) ==
    MaxInt64(Div(win.length + win.width - 1, win.width) - win.height, 0) * win.width

\* C20: after every command the viewport offset lies in
\* [0, max(ceil(length/width) - height, 0) * width], also after jumpTo to a
\* target on the last rows, after a successful forward search and after
\* deletions that shorten the content while the last rows are shown.
C20_OffsetWithinClamp ==
    /\ 0 <= w.offset
    /\ w.offset <= MaxOffset(w)

(***************************************************************************)
(* The commands that scroll the viewport down after moving the cursor.     *)
(***************************************************************************)
\* The types whose branch moves the cursor forward and scrolls down.
ScrollTypes ==
    {"CursorDown", "CursorNext", "CursorEnd", "StartAppend", "StartAppendEnd",
     "Rune", "SwitchVisualEnd", "ExecuteSearch", "NextSearch"}

\* The branch of run's switch for a command of those; a search is forward.
ScrollBranch(win, t, m, count, rune, pat) ==
    CASE t = "CursorDown" -> cursorDown(win, count)
      [] t = "CursorNext" -> cursorNext(win, m, count)
      [] t = "CursorEnd" -> cursorEnd(win, count)
      [] t = "StartAppend" -> startAppend(win)
      [] t = "StartAppendEnd" -> startAppendEnd(win)
      [] t = "Rune" -> insertRune(win, m, rune)
      [] t = "SwitchVisualEnd" -> switchVisualEnd(win)
      [] t \in {"ExecuteSearch", "NextSearch"} -> search(win, pat, TRUE)

\* The inputs a command of type t carries: a count, a rune, a pattern.
ScrollCounts(t) ==
    IF t \in {"CursorDown", "CursorNext", "CursorEnd"} THEN Counts ELSE {0}

ScrollRunes(t) == IF t = "Rune" THEN Runes ELSE {0}

ScrollPatterns(t) ==
    IF t \in {"ExecuteSearch", "NextSearch"} THEN SearchPatterns ELSE {<<>>}

\* The last command of the behaviour, recorded: one of those.
ScrollAt ==
    /\ trail = <<>>
    /\ \E t \in ScrollTypes :
          /\ Bound(mode, t)
          /\ \E c \in ScrollCounts(t), u \in ScrollRunes(t), a \in ScrollPatterns(t) :
                Step(t, ScrollBranch(w, t, mode, c, u, a),
                     <<[Type |-> t, before |-> w]>>, 1)

InitScroll == InitWith(InitBuffers, {2}, {1, 2}, MaxTick)

NextScroll ==
    \/ CursorNext \/ CursorPrev \/ StartInsert \/ StartReplace
    \/ Rune \/ ExitInsert \/ StartVisual \/ ExitVisual \/ ScrollAt

SpecScroll == InitScroll /\ [][NextScroll]_vars

\* ceil(a / b) for a >= 0 and b > 0.
CeilDiv(a, b) == CHOOSE q \in 0..a : q * b >= a /\ (q - 1) * b < a

\* The command from a to b moved the cursor to or past the end of the
\* viewport a showed.
MovedPastView(a, b) ==
    /\ b.cursor # a.cursor
    /\ b.cursor >= a.offset + a.height * a.width

\* The minimal scroll that puts the cursor of win on the last visible row.
MinimalScroll(win) ==
    CeilDiv(win.cursor - win.height * win.width + 1, win.width) * win.width

\* C21: whenever cursorDown, cursorNext, cursorEnd, startAppend, a committed
\* byte in Insert/Replace, switchVisualEnd or a successful forward search
\* moves the cursor to or past offset + height*width, the new viewport
\* offset is ceil((cursor - height*width + 1)/width) * width.
C21_ScrollDownIsMinimal ==
    (Len(trail) = 1 /\ trail[1].Type \in ScrollTypes
       /\ MovedPastView(trail[1].before, w)) =>
        w.offset = MinimalScroll(w)

\* A forward search has moved the cursor below the viewport it started in.
C21_Witness ==
    /\ Len(trail) = 1
    /\ trail[1].Type = "ExecuteSearch"
    /\ MovedPastView(trail[1].before, w)
    /\ w.cursor > trail[1].before.cursor

(***************************************************************************)
(* Every call of exitInsert: the ExitInsert command, and the second nibble *)
(* of a single-byte replace.                                               *)
(***************************************************************************)
\* The last command of the behaviour, recorded: the rune that completes the
\* byte of a single-byte replace, after which insertByte calls exitInsert.
ReplaceByteAt ==
    /\ trail = <<>>
    /\ Bound(mode, "Rune")
    /\ mode = "Replace" /\ w.replaceByte /\ w.pending /\ ~w.focusText
    /\ \E u \in HexRunes :
          Step("Rune", insertRune(w, mode, u), <<[Type |-> "Rune", before |-> w]>>, 1)

NextLeave == NextEdit \/ ExitInsertAt \/ ReplaceByteAt

SpecLeave == InitEdit /\ [][NextLeave]_vars

\* A virtual trailing slot is open in win.
SlotOpen(win) == win.append /\ win.extending

\* No edit-assembly flag of win is set.
FlagsClear(win) ==
    ~win.append /\ ~win.extending /\ ~win.pending /\ ~win.replaceByte

\* What exitInsert owes to the slot that was open in a: b is one shorter
\* and its cursor one less, but not below 0.
SlotClosed(a, b) ==
    /\ b.length = a.length - 1
    /\ b.cursor = MaxInt64(a.cursor - 1, 0)

\* C22: after every exitInsert, whether it ends an insert, an append, a
\* block replace or a single-byte replace and whether or not a virtual
\* trailing slot was open, append, extending, pending and replaceByte are
\* all false; if a slot was open, length is one less than before and the
\* cursor one less than before but never below 0.
C22_ExitInsertClearsAssembly ==
    Len(trail) = 1 =>
        /\ FlagsClear(w)
        /\ (SlotOpen(trail[1].before) => SlotClosed(trail[1].before, w))

\* An ExitInsert has closed the slot that was open at the end of the content.
C22_Witness ==
    /\ Len(trail) = 1
    /\ trail[1].Type = "ExitInsert"
    /\ SlotOpen(trail[1].before)
    /\ trail[1].before.cursor > 0
    /\ SlotClosed(trail[1].before, w)
    /\ ~w.append /\ ~w.extending /\ ~w.pending

(***************************************************************************)
(* Sequences of jumps, with other commands of Normal mode among them.      *)
(***************************************************************************)
JumpTypes == {"JumpTo", "JumpBack"}

\* The commands sent between jumps: cursor movement and a deletion.
BetweenTypes == {"CursorNext", "CursorPrev", "DeleteByte"}

\* The branch of run's switch for a command of those types, with no count.
JumpSeqBranch(win, t, m) ==
    CASE t = "JumpTo" -> jumpTo(win)
      [] t = "JumpBack" -> jumpBack(win)
      [] t = "CursorNext" -> cursorNext(win, m, 0)
      [] t = "CursorPrev" -> cursorPrev(win, 0)
      [] t = "DeleteByte" -> deleteByte(win, 0)

\* A command of the sequence, recorded; the sequence holds at most two
\* commands per entry the jump stack may hold, MaxBetween of them other
\* than jumps.
JumpSeq ==
    /\ Len(trail) < 2 * MaxStack
    /\ \A k \in 1..Len(trail) : trail[k].Type \in JumpTypes \cup BetweenTypes
    /\ \E t \in JumpTypes \cup BetweenTypes :
          /\ Bound(mode, t)
          /\ t \in BetweenTypes =>
                Cardinality({k \in 1..Len(trail) : trail[k].Type \in BetweenTypes})
                   < MaxBetween
          /\ Step(t, JumpSeqBranch(w, t, mode),
                  Append(trail, [Type |-> t, before |-> w]), 1)

InitJumpSeq == InitWith({JumpText}, {3}, {2}, 0)

NextJumpSeq == CursorNext \/ CursorPrev \/ PageEnd \/ JumpSeq

SpecJumpSeq == InitJumpSeq /\ [][NextJumpSeq]_vars

\* The window after the k-th recorded command.
AfterCmd(k) == IF k < Len(trail) THEN trail[k + 1].before ELSE w

\* The k-th recorded command is a jumpTo that jumped: it saved a position.
Jumped(k) ==
    /\ trail[k].Type = "JumpTo"
    /\ Len(AfterCmd(k).stack) > Len(trail[k].before.stack)

\* The saved positions a LIFO stack holds after the first k recorded
\* commands: a jumpTo that jumped saves the cursor and offset it left, a
\* jumpBack removes the most recent one, nothing else touches them.
RECURSIVE SavedAfter(_)
SavedAfter(k) ==
    IF k = 0 THEN trail[1].before.stack
    ELSE LET s == SavedAfter(k - 1)
         IN IF Jumped(k)
            THEN Append(s, [cursor |-> trail[k].before.cursor,
                            offset |-> trail[k].before.offset])
            ELSE IF trail[k].Type = "JumpBack" /\ s # <<>>
            THEN SubSeq(s, 1, Len(s) - 1)
            ELSE s

\* The k-th recorded command is a jumpBack that found a saved position and
\* left the window on it.
RestoredBy(k) ==
    LET s == SavedAfter(k - 1)
    IN (trail[k].Type = "JumpBack" /\ s # <<>>) =>
          /\ AfterCmd(k).cursor = s[Len(s)].cursor
          /\ AfterCmd(k).offset = s[Len(s)].offset

\* The recorded commands are n jumpTo that jumped, then n jumpBack.
RoundTrip(n) ==
    /\ n >= 1 /\ Len(trail) = 2 * n
    /\ \A k \in 1..n : Jumped(k)
    /\ \A k \in (n + 1)..(2 * n) : trail[k].Type = "JumpBack"

\* C23: the jump stack is LIFO and restores verbatim: after n jumpTo that
\* jumped and then n jumpBack, cursor and viewport offset are those before
\* the first jumpTo; each jumpBack restores the pair saved by the matching
\* jumpTo and removes it; a jumpTo that does not jump leaves the stack
\* unchanged; no other command changes the stack.
C23_JumpStackIsLifo ==
    trail # <<>> =>
        /\ w.stack = SavedAfter(Len(trail))
        /\ \A k \in 1..Len(trail) : RestoredBy(k)
        /\ \A n \in 1..MaxStack :
              RoundTrip(n) => /\ w.cursor = trail[1].before.cursor
                              /\ w.offset = trail[1].before.offset
                              /\ w.stack = trail[1].before.stack

\* Two jumps from different positions have been undone by two jumpBack.
C23_Witness ==
    /\ RoundTrip(2)
    /\ trail[1].before.cursor # trail[2].before.cursor
    /\ trail[1].before.cursor # trail[3].before.cursor
    /\ trail[4].before.cursor = trail[2].before.cursor
    /\ w.cursor = trail[1].before.cursor
    /\ w.stack = <<>>

(***************************************************************************)
(* A forward search, for a pattern that may be empty or partly NUL.        *)
(***************************************************************************)
\* The patterns of a forward search: those above, the empty one and one
\* that ends in NUL bytes.
ForwardPatterns == SearchPatterns \cup {<<>>, <<49, 0>>}

\* The last command of the behaviour, recorded: a forward search.
SearchForwardFor ==
    /\ trail = <<>>
    /\ Bound(mode, "ExecuteSearch")
    /\ \E a \in ForwardPatterns :
          Step("ExecuteSearch", search(w, a, TRUE),
               <<[Type |-> "ExecuteSearch", Arg |-> a, before |-> w]>>, 0)

InitForward == InitWith(InitBuffers, {2, 3}, {1, 2}, 0)

NextForward == CursorNext \/ CursorPrev \/ CursorDown \/ SearchForwardFor

SpecForward == InitForward /\ [][NextForward]_vars

\* The bytes pat lie inside the content of win at its cursor.
PatternInContent(win, pat) ==
    /\ win.cursor + Len(pat) <= win.length
    /\ win.cursor < MaxInt64(win.length, 1)

\* C24: a successful forward search moves the cursor only to an offset at
\* which the whole pattern lies inside the real content, so that
\* cursor + len(pattern) <= length and cursor < max(length, 1); the
\* zero-filled tail of the scan buffer and an empty pattern never produce a
\* match.
C24_ForwardMatchInsideContent ==
    Len(trail) = 1 =>
        /\ (w.cursor # trail[1].before.cursor =>
               /\ PatternInContent(w, trail[1].Arg)
               /\ SubSeq(w.buffer, w.cursor + 1, w.cursor + Len(trail[1].Arg))
                    = trail[1].Arg)
        /\ (trail[1].Arg = <<>> =>
               /\ w.cursor = trail[1].before.cursor
               /\ w.offset = trail[1].before.offset)

\* A forward search has moved the cursor onto a match inside the content.
C24_Witness ==
    /\ Len(trail) = 1
    /\ trail[1].Arg = <<255, 49>>
    /\ w.cursor > trail[1].before.cursor
    /\ PatternInContent(w, trail[1].Arg)

=============================================================================
